---- MODULE Spec2Model ----
(***************************************************************************)
(* A model of mtsv_tools: the binner's resume logic, worker pipeline and   *)
(* result writer (src/bin/mtsv-binner.rs, src/binner.rs), the result-line  *)
(* codec (src/binner.rs, src/io.rs), the collapser (src/collapse.rs) and   *)
(* the index with its query (src/index.rs).                                *)
(*                                                                         *)
(* Text is modelled as sequences of one-character strings, so that         *)
(* formatting and parsing are computed as the code computes them.          *)
(***************************************************************************)
EXTENDS Integers, Sequences, FiniteSets, TLC

VARIABLES
    \* ---- result codec (write_assignments / parse_edit_distance_findings) ----
    c_header,     \* the read id handed to the writer
    c_hits,       \* the hit list handed to the writer
    c_long,       \* long_info_output
    c_line,       \* the bytes the writer produced
    c_parsed,     \* what the parser returned for those bytes
    c_stage,      \* position in the write / parse round trip
    \* ---- binner: main, pipeline, writer ----
    input,            \* the input records, in file order
    num_threads,      \* NUM_THREADS
    arg_read_offset,  \* --read-offset
    force_overwrite,  \* --force-overwrite
    file_exists,      \* does the results file exist on disk
    results_file,     \* the bytes of the results file
    pc,               \* where main is
    exit_code,        \* the process exit code (-1 while running)
    append_results,   \* main's append_results
    read_offset,      \* the read_offset handed to the binner (start index)
    next_rec,         \* number of records the decoder has handed out
    workers,          \* per worker thread: 0 when idle, else the index it holds
    result_queue,     \* results on their way to the writer
    handed,           \* indices of the results the writer was given, in order
    failure,          \* the fatal error met so far: "none", "decode" or "write"
    processed,        \* indices of the records a worker has taken
    \* ---- collapser ----
    k_files,          \* the input files: sequences of lines
    k_mode,           \* CollapseMode
    k_delta,          \* edit_delta
    k_sorted,         \* per input file: the externally sorted file, once written
    k_running,        \* the sort workers that are spawned and have not finished
    k_done,           \* the sort workers that have finished
    k_pos,            \* per reader: number of lines read
    k_heap,           \* the merge heap
    k_current_id,     \* current_id (Option<String>)
    k_taxid_hits,     \* HashMap<TaxId, u32>
    k_taxid_gi_hits,  \* HashMap<(TaxId, Gi), (u32, usize)>
    k_offset_format,  \* Option<bool>
    k_out,            \* the lines written to write_to
    k_status,         \* "sorting", "merging", "Ok" or the error returned
    \* ---- index construction (parse_fasta_db, MGIndex::new) ----
    i_records,        \* the records of the FASTA database, in file order
    i_db,             \* the Database parse_fasta_db returned
    i_uppercase,      \* MGIndex::new(db)
    i_lowercase,      \* MGIndex::new(lowercase(db))
    i_stage,          \* "parse", "parsed" or "idle"
    \* ---- SeedHit::candidate_indices ----
    s_bin,            \* the Bin the seed hit is evaluated against
    s_seed_hit,       \* the SeedHit
    s_read_len,       \* read_len
    s_edit_distance,  \* edit_distance
    s_result,         \* what candidate_indices returned
    overflow_checks,  \* is the build one that checks arithmetic overflow
    \* ---- MGIndex::matching_tax_ids ----
    q_index,          \* the MGIndex (sequences and bins)
    q_sequence,       \* the query sequence
    q_params,         \* the other arguments of matching_tax_ids
    q_pc,             \* "seeds", "coalesce", "align", "done" or "panic"
    q_walk,           \* the seed loop: offset, next_offset, seed_interval, n_seeds, bin_locations
    q_seed_hits,      \* the sorted seed hits coalesce_seed_sites has still to visit
    q_min_seeds,      \* min_seeds
    q_coal,           \* coalesce_seed_sites: curr_bin, curr_cand, candidates
    q_align,          \* the candidate loop: refs left, matches, hits
    \* ---- the worker closure of the binner over one record and its reverse complement ----
    w_index,          \* the MGIndex
    w_seq,            \* record.seq() of the record
    w_params,         \* edit_distance, seed_size, seed_gap, min_seeds, max_hits, tune_max_hits
    w_limits,         \* max_assignments and max_candidates_checked
    w_out,            \* the result and the line written for the record
    w_rc_out,         \* the result and the line written for its reverse complement
    \* ---- external_sort_file on its own ----
    e_file,           \* the text of the input file
    e_chunk_bytes,    \* chunk_bytes
    e_result,         \* what external_sort_file returned
    e_stage,          \* "input" or "sorted"
    \* ---- create_temp_dir and the collapses of one process that call it ----
    t_now,            \* SystemTime::now() in milliseconds
    t_dirs,           \* the directories that exist under std::env::temp_dir()
    t_pc,             \* where each collapse_edit_files call is
    t_dir             \* the temp_dir of collapse_edit_files and of collapse_edit_paths

codecVars == <<c_header, c_hits, c_long, c_line, c_parsed, c_stage>>
binVars == <<input, failure, num_threads, arg_read_offset, force_overwrite, file_exists,
             results_file, pc, exit_code, append_results, read_offset, next_rec,
             workers, result_queue, handed, processed>>
colVars == <<k_files, k_mode, k_delta, k_sorted, k_running, k_done, k_pos, k_heap,
             k_current_id, k_taxid_hits, k_taxid_gi_hits, k_offset_format,
             k_out, k_status>>
idxVars == <<i_records, i_db, i_uppercase, i_lowercase, i_stage>>
seedVars == <<s_bin, s_seed_hit, s_read_len, s_edit_distance, s_result>>
qryVars == <<q_index, q_sequence, q_params, q_pc, q_walk, q_seed_hits, q_min_seeds,
             q_coal, q_align>>
wrkVars == <<w_index, w_seq, w_params, w_limits, w_out, w_rc_out>>
fsVars == <<e_file, e_chunk_bytes, e_result, e_stage, t_now, t_dirs, t_pc, t_dir>>
auxVars == <<idxVars, seedVars, overflow_checks, qryVars, wrkVars, fsVars>>
vars == <<codecVars, binVars, colVars, fsVars, auxVars>>

-----------------------------------------------------------------------------
(* Bounds of the model.                                                    *)

MaxHits == 2      \* hits handed to the writer for one read
MaxReads == 2     \* records in the binner's input
MaxThreads == 2   \* worker threads of the pipeline
MaxOffset == 1    \* --read-offset
MaxFiles == 2     \* input files of the collapser
MaxLines == 3     \* lines in all collapser input files together
MaxDelta == 1     \* edit_delta
MaxRecs == 2      \* records in the FASTA database
MaxSeqLen == 2    \* bytes in one reference sequence
MaxPos == 8       \* the largest offset into the concatenated sequences
MaxReadLen == 3   \* bytes in one read
MaxRefLen == 4    \* bytes in one reference sequence of a queried index
MaxCorpusLen == 5 \* bytes in all reference sequences of a queried index together
MaxAssign == 1    \* the K of max_assignments and max_candidates_checked
UsizeMax == 65535 \* the largest usize of the model (usize::MAX scaled down)
EditMax == 15     \* the largest u32 of the model (u32::MAX scaled down)

-----------------------------------------------------------------------------
(* Text.                                                                   *)

\* The bytes used by the model, in ascending byte order.
Alphabet == <<"\t", "\n", "\r", " ", "+", ",", "-",
              "0", "1", "2", "3", "4", "5", "6", "7", "8", "9",
              ":", "=", "a", "b", "r">>

Code(c) == CHOOSE i \in 1..Len(Alphabet) : Alphabet[i] = c

DigitChars == <<"0", "1", "2", "3", "4", "5", "6", "7", "8", "9">>
IsDigit(c) == \E d \in 1..10 : DigitChars[d] = c
DigitVal(c) == (CHOOSE d \in 1..10 : DigitChars[d] = c) - 1
IsSpace(c) == c \in {" ", "\t", "\n", "\r"}

\* Ord for str: bytewise lexicographic.
RECURSIVE StrLess(_, _)
StrLess(a, b) ==
    IF b = <<>> THEN FALSE
    ELSE IF a = <<>> THEN TRUE
    ELSE IF Code(Head(a)) # Code(Head(b)) THEN Code(Head(a)) < Code(Head(b))
    ELSE StrLess(Tail(a), Tail(b))

\* Display for unsigned integers ("{}").
RECURSIVE Display(_)
Display(n) ==
    IF n < 10 THEN <<DigitChars[n + 1]>>
    ELSE Display(n \div 10) \o <<DigitChars[(n % 10) + 1]>>

RECURSIVE DigitsValue(_, _)
DigitsValue(s, acc) ==
    IF s = <<>> THEN acc ELSE DigitsValue(Tail(s), acc * 10 + DigitVal(Head(s)))

\* u32::from_str / usize::from_str: an optional '+', then one or more digits.
ParseInt(s) ==
    LET body == IF s # <<>> /\ Head(s) = "+" THEN Tail(s) ELSE s
    IN  IF body = <<>> \/ \E i \in 1..Len(body) : ~IsDigit(body[i])
        THEN [ok |-> FALSE, val |-> 0]
        ELSE [ok |-> TRUE, val |-> DigitsValue(body, 0)]

\* str::split(sep): always at least one piece.
RECURSIVE SplitFrom(_, _, _)
SplitFrom(s, sep, cur) ==
    IF s = <<>> THEN <<cur>>
    ELSE IF Head(s) = sep THEN <<cur>> \o SplitFrom(Tail(s), sep, <<>>)
    ELSE SplitFrom(Tail(s), sep, Append(cur, Head(s)))

Split(s, sep) == SplitFrom(s, sep, <<>>)

\* str::rsplitn(2, sep): first the piece after the last sep, then the rest.
RSplitN2(s, sep) ==
    LET at == {i \in 1..Len(s) : s[i] = sep}
    IN  IF at = {} THEN <<s>>
        ELSE LET k == CHOOSE i \in at : \A j \in at : j <= i
             IN  <<SubSeq(s, k + 1, Len(s)), SubSeq(s, 1, k - 1)>>

RECURSIVE TrimStart(_)
TrimStart(s) == IF s # <<>> /\ IsSpace(Head(s)) THEN TrimStart(Tail(s)) ELSE s

RECURSIVE TrimEnd(_)
TrimEnd(s) ==
    IF s # <<>> /\ IsSpace(s[Len(s)]) THEN TrimEnd(SubSeq(s, 1, Len(s) - 1)) ELSE s

\* str::trim
Trim(s) == TrimEnd(TrimStart(s))

\* BufRead::lines: pieces ended by "\n" (a final unterminated piece counts, an
\* empty remainder does not); a "\r" before the "\n" is dropped.
RECURSIVE LinesFrom(_, _)
LinesFrom(s, cur) ==
    IF s = <<>> THEN (IF cur = <<>> THEN <<>> ELSE <<cur>>)
    ELSE IF Head(s) = "\n"
         THEN <<IF cur # <<>> /\ cur[Len(cur)] = "\r"
                THEN SubSeq(cur, 1, Len(cur) - 1) ELSE cur>>
              \o LinesFrom(Tail(s), <<>>)
    ELSE LinesFrom(Tail(s), Append(cur, Head(s)))

Lines(s) == LinesFrom(s, <<>>)

RECURSIVE Join(_, _)
Join(pieces, sep) ==
    IF pieces = <<>> THEN <<>>
    ELSE IF Len(pieces) = 1 THEN pieces[1]
    ELSE pieces[1] \o <<sep>> \o Join(Tail(pieces), sep)

\* Sequences over S of length lo..hi.
SeqsOf(S, lo, hi) == UNION {[1..n -> S] : n \in lo..hi}

-----------------------------------------------------------------------------
(* The result codec: binner.rs write_assignments / write_single_line and   *)
(* io.rs parse_edit_distance_findings / parse_findings.                    *)

Hit(t, g, o, e) == [tax_id |-> t, gi |-> g, offset |-> o, edit |-> e]

\* Ordering::then over the compared fields: lexicographic on equal-length tuples.
RECURSIVE TupleLess(_, _)
TupleLess(a, b) ==
    IF a = <<>> \/ b = <<>> THEN FALSE
    ELSE IF Head(a) # Head(b) THEN Head(a) < Head(b)
    ELSE TupleLess(Tail(a), Tail(b))

\* Vec::sort_by over the items collected from a HashMap (distinct items).
RECURSIVE SortItems(_)
SortItems(S) ==
    IF S = {} THEN <<>>
    ELSE LET m == CHOOSE x \in S : \A y \in S \ {x} : TupleLess(x, y)
         IN  <<m>> \o SortItems(S \ {m})

\* The key write_assignments groups by.
HitKey(h, long) == IF long THEN <<h.tax_id, h.gi, h.offset>> ELSE <<h.tax_id>>

BestInsertLast(best, key, edit) ==
    IF key \in DOMAIN best THEN [best EXCEPT ![key] = edit]
    ELSE best @@ (key :> edit)

\* best.entry(key).and_modify(|e| if h.edit < *e { *e = h.edit }).or_insert(h.edit)
BestInsert(best, key, edit) ==
    IF key \in DOMAIN best
    THEN (IF edit < best[key] THEN [best EXCEPT ![key] = edit] ELSE best)
    ELSE best @@ (key :> edit)

RECURSIVE FoldBest(_, _, _)
FoldBest(hits, long, best) ==
    IF hits = <<>> THEN best
    ELSE FoldBest(Tail(hits), long, BestInsert(best, HitKey(Head(hits), long), Head(hits).edit))

EmptyMap == [k \in {} |-> 0]

\* write!(line, "{}-{}-{}={}", ...) and write!(line, "{}={}", ...): item is key ++ edit.
FormatItem(item) ==
    LET n == Len(item)
    IN  Join([i \in 1..(n - 1) |-> Display(item[i])], "-") \o <<"=">> \o Display(item[n])

write_assignments(header, hits, long) ==
    IF hits = <<>> THEN <<>>
    ELSE LET best == FoldBest(hits, long, EmptyMap)
             items == SortItems({Append(k, best[k]) : k \in DOMAIN best})
         IN  header \o <<":">>
                \o Join([i \in 1..Len(items) |-> FormatItem(items[i])], ",")
                \o <<"\n">>

\* BTreeSet<TaxId> iterated in ascending order.
write_single_line(header, matches) ==
    IF matches = {} THEN <<>>
    ELSE LET items == SortItems({<<t>> : t \in matches})
         IN  header \o <<":">>
                \o Join([i \in 1..Len(items) |-> Display(items[i][1])], ",")
                \o <<"\n">>

\* The tokens of one line of parse_edit_distance_findings, left to right.
RECURSIVE ParseEditTokens(_, _)
ParseEditTokens(toks, acc) ==
    IF toks = <<>> THEN [status |-> "Ok", hits |-> acc]
    ELSE LET res == Split(Head(toks), "=")
             tax == ParseInt(res[1])
         IN  IF ~tax.ok THEN [status |-> "InvalidInteger", hits |-> <<>>]
             ELSE IF Len(res) < 2 THEN [status |-> "panic", hits |-> <<>>]
             ELSE LET edit == ParseInt(res[2])
                  IN  IF ~edit.ok THEN [status |-> "InvalidInteger", hits |-> <<>>]
                      ELSE ParseEditTokens(Tail(toks),
                                           Append(acc, Hit(tax.val, 0, 0, edit.val)))

\* One item of the iterator parse_edit_distance_findings returns.
ParseEditLine(line) ==
    LET l == Trim(line)
        halves == RSplitN2(l, ":")
        parsed == ParseEditTokens(Split(halves[1], ","), <<>>)
    IN  IF parsed.status # "Ok" THEN [status |-> parsed.status, id |-> <<>>, hits |-> <<>>]
        ELSE IF Len(halves) < 2 \/ halves[2] = <<>>
             THEN [status |-> "InvalidHeader", id |-> <<>>, hits |-> <<>>]
        ELSE [status |-> "Ok", id |-> halves[2], hits |-> parsed.hits]

parse_edit_distance_findings(s) ==
    LET ls == Lines(s) IN [i \in 1..Len(ls) |-> ParseEditLine(ls[i])]

RECURSIVE ParseTaxTokens(_, _)
ParseTaxTokens(toks, acc) ==
    IF toks = <<>> THEN [status |-> "Ok", hits |-> acc]
    ELSE LET tax == ParseInt(Head(toks))
         IN  IF ~tax.ok THEN [status |-> "InvalidInteger", hits |-> {}]
             ELSE ParseTaxTokens(Tail(toks), acc \cup {tax.val})

ParseFindingsLine(line) ==
    LET l == Trim(line)
        halves == RSplitN2(l, ":")
        parsed == ParseTaxTokens(Split(halves[1], ","), {})
    IN  IF parsed.status # "Ok" THEN [status |-> parsed.status, id |-> <<>>, hits |-> {}]
        ELSE IF Len(halves) < 2 \/ halves[2] = <<>>
             THEN [status |-> "InvalidHeader", id |-> <<>>, hits |-> {}]
        ELSE [status |-> "Ok", id |-> halves[2], hits |-> parsed.hits]

parse_findings(s) ==
    LET ls == Lines(s) IN [i \in 1..Len(ls) |-> ParseFindingsLine(ls[i])]

-----------------------------------------------------------------------------
(* Values every specification gives to the parts of the state it leaves    *)
(* alone.                                                                  *)

CodecIdle ==
    /\ c_header = <<>> /\ c_hits = <<>> /\ c_long = FALSE
    /\ c_line = <<>> /\ c_parsed = <<>> /\ c_stage = "idle"

BinIdle ==
    /\ input = <<>> /\ failure = "none" /\ num_threads = 0 /\ arg_read_offset = 0
    /\ force_overwrite = FALSE /\ file_exists = FALSE /\ results_file = <<>>
    /\ pc = "idle" /\ exit_code = -1 /\ append_results = FALSE /\ read_offset = 0
    /\ next_rec = 0 /\ workers = <<>> /\ result_queue = <<>> /\ handed = <<>>
    /\ processed = {}

ColIdle ==
    /\ k_files = <<>> /\ k_mode = "TaxId" /\ k_delta = 0 /\ k_sorted = <<>>
    /\ k_running = {} /\ k_done = {} /\ k_pos = <<>> /\ k_heap = {} /\ k_current_id = <<>>
    /\ k_taxid_hits = EmptyMap /\ k_taxid_gi_hits = EmptyMap
    /\ k_offset_format = "None" /\ k_out = <<>>
    /\ k_status = "idle"

\* Option<MGIndex>::None: an index always holds the sentinel byte.
NoIndex == [sequences |-> <<>>, bins |-> <<>>]

IdxIdle ==
    /\ i_records = <<>> /\ i_db = <<>> /\ i_uppercase = NoIndex
    /\ i_lowercase = NoIndex /\ i_stage = "idle"

SeedIdle ==
    /\ s_bin = <<>> /\ s_seed_hit = <<>> /\ s_read_len = 0
    /\ s_edit_distance = 0 /\ s_result = <<>>

QryIdle ==
    /\ q_index = NoIndex /\ q_sequence = <<>> /\ q_params = <<>> /\ q_pc = "idle"
    /\ q_walk = <<>> /\ q_seed_hits = <<>> /\ q_min_seeds = 0 /\ q_coal = <<>>
    /\ q_align = <<>>

WrkIdle ==
    /\ w_index = NoIndex /\ w_seq = <<>> /\ w_params = <<>> /\ w_limits = <<>>
    /\ w_out = <<>> /\ w_rc_out = <<>>

FsIdle ==
    /\ e_file = <<>> /\ e_chunk_bytes = 0 /\ e_result = <<>> /\ e_stage = "idle"
    /\ t_now = 0 /\ t_dirs = {} /\ t_pc = <<>> /\ t_dir = <<>>

AuxIdle ==
    IdxIdle /\ SeedIdle /\ QryIdle /\ WrkIdle /\ FsIdle /\ overflow_checks = FALSE

-----------------------------------------------------------------------------
(* Specification SpecCodec: one read's hits are written and parsed back.   *)

Headers == {<<"r">>, <<"r", "1">>, <<"a", ":", "b">>}
CodecHits == {Hit(t, g, o, e) : t \in {2, 15}, g \in {10, 11}, o \in {1, 3}, e \in {4, 12}}

CodecInit ==
    /\ c_header \in Headers
    /\ c_hits \in SeqsOf(CodecHits, 0, MaxHits)
    /\ c_long \in BOOLEAN
    /\ c_line = <<>>
    /\ c_parsed = <<>>
    /\ c_stage = "input"
    /\ BinIdle /\ ColIdle /\ AuxIdle

\* binner.rs: the writer closure calls write_assignments on its BufWriter.
WriteAssignments ==
    /\ c_stage = "input"
    /\ c_line' = write_assignments(c_header, c_hits, c_long)
    /\ c_stage' = "written"
    /\ UNCHANGED <<c_header, c_hits, c_long, c_parsed, binVars, colVars, auxVars>>

\* io.rs: the lines written are read back through parse_edit_distance_findings.
ParseEditDistanceFindings ==
    /\ c_stage = "written"
    /\ c_parsed' = parse_edit_distance_findings(c_line)
    /\ c_stage' = "parsed"
    /\ UNCHANGED <<c_header, c_hits, c_long, c_line, binVars, colVars, auxVars>>

\* The taxid set of a hit list (the legacy id-only format).
TaxIdSet(hits) == {hits[i].tax_id : i \in 1..Len(hits)}

\* binner.rs write_single_line, as io.rs test::roundtrip drives it.
WriteSingleLine ==
    /\ c_stage = "input"
    /\ c_line' = write_single_line(c_header, TaxIdSet(c_hits))
    /\ c_stage' = "written_ids"
    /\ UNCHANGED <<c_header, c_hits, c_long, c_parsed, binVars, colVars, auxVars>>

\* io.rs parse_findings over the bytes write_single_line produced.
ParseFindings ==
    /\ c_stage = "written_ids"
    /\ c_parsed' = parse_findings(c_line)
    /\ c_stage' = "parsed_ids"
    /\ UNCHANGED <<c_header, c_hits, c_long, c_line, binVars, colVars, auxVars>>

CodecNext ==
    \/ WriteAssignments
    \/ ParseEditDistanceFindings
    \/ WriteSingleLine
    \/ ParseFindings

SpecCodec == CodecInit /\ [][CodecNext]_vars

-----------------------------------------------------------------------------
(* The collapser (src/collapse.rs): line handling and the external sort.   *)

\* BufRead::read_line over a whole file: the lines with their terminators.
RECURSIVE RawLinesFrom(_, _)
RawLinesFrom(s, cur) ==
    IF s = <<>> THEN (IF cur = <<>> THEN <<>> ELSE <<cur>>)
    ELSE IF Head(s) = "\n" THEN <<Append(cur, "\n")>> \o RawLinesFrom(Tail(s), <<>>)
    ELSE RawLinesFrom(Tail(s), Append(cur, Head(s)))

RawLines(s) == RawLinesFrom(s, <<>>)

\* str::trim_end_matches(&['\n', '\r'][..])
RECURSIVE TrimLineEnd(_)
TrimLineEnd(s) ==
    IF s # <<>> /\ s[Len(s)] \in {"\n", "\r"}
    THEN TrimLineEnd(SubSeq(s, 1, Len(s) - 1)) ELSE s

normalize_line(line) == Append(TrimLineEnd(line), "\n")

split_line(line) ==
    LET halves == RSplitN2(TrimLineEnd(line), ":")
    IN  IF Len(halves) < 2 \/ halves[2] = <<>>
        THEN [status |-> "InvalidHeader", read_id |-> <<>>, hits |-> <<>>]
        ELSE [status |-> "Ok", read_id |-> halves[2], hits |-> halves[1]]

read_id_from_line(line) == split_line(line)

NoHit == [tax_id |-> 0, gi |-> 0, offset |-> 0, edit |-> 0,
          has_gi |-> FALSE, has_offset |-> FALSE]

parse_hit_token(token) ==
    LET parts == Split(token, "=")
        bad(why) == [status |-> why, hit |-> NoHit]
    IN  IF Len(parts) # 2 THEN bad("InvalidHeader")
        ELSE LET edit == ParseInt(parts[2])
                 left == Split(parts[1], "-")
                 tax == ParseInt(left[1])
                 gi == IF Len(left) >= 2 THEN ParseInt(left[2]) ELSE [ok |-> TRUE, val |-> 0]
                 off == IF Len(left) >= 3 THEN ParseInt(left[3]) ELSE [ok |-> TRUE, val |-> 0]
             IN  IF ~edit.ok THEN bad("InvalidInteger")
                 ELSE IF ~tax.ok THEN bad("InvalidInteger")
                 ELSE IF Len(left) > 3 THEN bad("InvalidHeader")
                 ELSE IF ~gi.ok THEN bad("InvalidInteger")
                 ELSE IF ~off.ok THEN bad("InvalidInteger")
                 ELSE [status |-> "Ok",
                       hit |-> [tax_id |-> tax.val, gi |-> gi.val, offset |-> off.val,
                                edit |-> edit.val,
                                has_gi |-> Len(left) >= 2, has_offset |-> Len(left) >= 3]]

RECURSIVE ParseHitTokens(_, _)
ParseHitTokens(toks, acc) ==
    IF toks = <<>> THEN [status |-> "Ok", hits |-> acc]
    ELSE LET r == parse_hit_token(Head(toks))
         IN  IF r.status # "Ok" THEN [status |-> r.status, hits |-> <<>>]
             ELSE ParseHitTokens(Tail(toks), Append(acc, r.hit))

parse_hits(hits) ==
    IF hits = <<>> THEN [status |-> "Ok", hits |-> <<>>]
    ELSE ParseHitTokens(Split(hits, ","), <<>>)

\* The comparator of write_sorted_chunk: read id, then the whole line.
RecordLessEq(a, b) ==
    IF a.read_id # b.read_id THEN StrLess(a.read_id, b.read_id)
    ELSE ~StrLess(b.line, a.line)

RECURSIVE InsertRecord(_, _)
InsertRecord(r, sorted) ==
    IF sorted = <<>> THEN <<r>>
    ELSE IF RecordLessEq(r, Head(sorted)) THEN <<r>> \o sorted
    ELSE <<Head(sorted)>> \o InsertRecord(r, Tail(sorted))

RECURSIVE SortRecords(_)
SortRecords(recs) ==
    IF recs = <<>> THEN <<>>
    ELSE InsertRecord(recs[Len(recs)], SortRecords(SubSeq(recs, 1, Len(recs) - 1)))

\* write_sorted_chunk: the chunk file holds the lines of the sorted records.
write_sorted_chunk(records) ==
    LET sorted == SortRecords(records) IN [i \in 1..Len(sorted) |-> sorted[i].line]

\* Ord for HeapItem, reversed by the max-heap: the item BinaryHeap::pop returns
\* is the one with the least (read_id, idx).
HeapLessByIdx(a, b) ==
    IF a.idx # b.idx THEN a.idx < b.idx ELSE StrLess(a.read_id, b.read_id)

HeapLess(a, b) ==
    IF a.read_id # b.read_id THEN StrLess(a.read_id, b.read_id) ELSE a.idx < b.idx

HeapPop(heap) == CHOOSE x \in heap : \A y \in heap \ {x} : HeapLess(x, y)

HeapItem(line, idx) ==
    [read_id |-> read_id_from_line(line).read_id, line |-> normalize_line(line), idx |-> idx]

\* The pop loop of merge_sorted_chunks.
RECURSIVE MergeLoop(_, _, _, _)
MergeLoop(chunks, pos, heap, out) ==
    IF heap = {} THEN out
    ELSE LET item == HeapPop(heap)
             i == item.idx
             more == pos[i] < Len(chunks[i])
         IN  MergeLoop(chunks,
                       IF more THEN [pos EXCEPT ![i] = pos[i] + 1] ELSE pos,
                       (heap \ {item}) \cup
                           (IF more THEN {HeapItem(chunks[i][pos[i] + 1], i)} ELSE {}),
                       Append(out, item.line))

\* The chunk files one after the other, without the heap.
merge_chunks_in_turn(chunks) ==
    IF chunks = <<>> THEN <<>>
    ELSE LET RECURSIVE cat(_)
             cat(i) == IF i > Len(chunks) THEN <<>> ELSE chunks[i] \o cat(i + 1)
         IN  cat(1)

merge_sorted_chunks(chunks) ==
    LET nonempty == {i \in 1..Len(chunks) : chunks[i] # <<>>}
    IN  MergeLoop(chunks,
                  [i \in 1..Len(chunks) |-> IF i \in nonempty THEN 1 ELSE 0],
                  {HeapItem(chunks[i][1], i) : i \in nonempty},
                  <<>>)

\* The read loop of external_sort_file over the remaining lines.
RECURSIVE SortLoop(_, _, _, _, _)
SortLoop(lines, chunk_bytes, records, current_bytes, chunks) ==
    IF lines = <<>>
    THEN [status |-> "Ok",
          chunks |-> IF records # <<>> THEN Append(chunks, write_sorted_chunk(records))
                     ELSE chunks]
    ELSE LET line == Head(lines)
         IN  IF Trim(line) = <<>>
             THEN SortLoop(Tail(lines), chunk_bytes, records, current_bytes, chunks)
             ELSE LET normalized == normalize_line(line)
                      rid == read_id_from_line(line)
                      bytes == current_bytes + Len(normalized)
                      recs == Append(records, [read_id |-> rid.read_id, line |-> normalized])
                  IN  IF rid.status # "Ok" THEN [status |-> rid.status, chunks |-> <<>>]
                      ELSE IF bytes >= chunk_bytes
                           THEN SortLoop(Tail(lines), chunk_bytes, <<>>, 0,
                                         Append(chunks, write_sorted_chunk(recs)))
                           ELSE SortLoop(Tail(lines), chunk_bytes, recs, bytes, chunks)

\* external_sort_file: the sorted file as its sequence of lines.
external_sort_file(file, chunk_bytes) ==
    LET r == SortLoop(RawLines(file), chunk_bytes, <<>>, 0, <<>>)
    IN  IF r.status # "Ok" THEN [status |-> r.status, lines |-> <<>>]
        ELSE IF Len(r.chunks) = 1 THEN [status |-> "Ok", lines |-> r.chunks[1]]
        ELSE [status |-> "Ok", lines |-> merge_sorted_chunks(r.chunks)]

-----------------------------------------------------------------------------
(* The collapser: reducers, filters, writers and collapse_sorted_files.    *)

\* u32::saturating_add
saturating_add(a, b) == IF a + b > EditMax THEN EditMax ELSE a + b

wrapping_add(a, b) == (a + b) % (EditMax + 1)

MinOf(S) == CHOOSE x \in S : \A y \in S : x <= y

filter_taxid_hits_wrapping(hits, edit_delta) ==
    IF DOMAIN hits = {} THEN hits
    ELSE LET cutoff == wrapping_add(MinOf({hits[k] : k \in DOMAIN hits}), edit_delta)
         IN  [k \in {x \in DOMAIN hits : hits[x] <= cutoff} |-> hits[k]]

filter_taxid_hits(hits, edit_delta) ==
    IF DOMAIN hits = {} THEN hits
    ELSE LET min_edit == MinOf({hits[k] : k \in DOMAIN hits})
             cutoff == saturating_add(min_edit, edit_delta)
         IN  [k \in {x \in DOMAIN hits : hits[x] <= cutoff} |-> hits[k]]

filter_taxid_gi_hits(hits, edit_delta) ==
    IF DOMAIN hits = {} THEN hits
    ELSE LET min_edit == MinOf({hits[k][1] : k \in DOMAIN hits})
             cutoff == saturating_add(min_edit, edit_delta)
         IN  [k \in {x \in DOMAIN hits : hits[x][1] <= cutoff} |-> hits[k]]

\* The line write_collapsed_taxid writes (nothing for an empty map).
write_collapsed_taxid(header, hits) ==
    IF DOMAIN hits = {} THEN <<>>
    ELSE LET items == SortItems({<<k, hits[k]>> : k \in DOMAIN hits})
         IN  <<header \o <<":">>
                  \o Join([i \in 1..Len(items) |-> FormatItem(items[i])], ",")
                  \o <<"\n">> >>

\* The line write_collapsed_taxid_gi writes: items sorted by taxid, gi, edit,
\* offset and written as taxid-gi-offset=edit or taxid-gi=edit.
write_collapsed_taxid_gi(header, hits, include_offset) ==
    IF DOMAIN hits = {} THEN <<>>
    ELSE LET items == SortItems({<<k[1], k[2], hits[k][1], hits[k][2]>> : k \in DOMAIN hits})
             text(it) == IF include_offset THEN FormatItem(<<it[1], it[2], it[4], it[3]>>)
                         ELSE FormatItem(<<it[1], it[2], it[3]>>)
         IN  <<header \o <<":">>
                  \o Join([i \in 1..Len(items) |-> text(items[i])], ",")
                  \o <<"\n">> >>

\* The flush of collapse_sorted_files: filter, then write, for the current mode.
FlushLines(header, mode, edit_delta, taxid_hits, taxid_gi_hits, offset_format) ==
    IF mode = "TaxId"
    THEN write_collapsed_taxid(header, filter_taxid_hits(taxid_hits, edit_delta))
    ELSE write_collapsed_taxid_gi(header, filter_taxid_gi_hits(taxid_gi_hits, edit_delta),
                                  offset_format = "Some(true)")

\* taxid_hits.entry(hit.tax_id).or_insert(hit.edit), lowered to hit.edit if smaller.
TaxIdEntry(hits, hit) ==
    IF hit.tax_id \in DOMAIN hits
    THEN (IF hit.edit < hits[hit.tax_id] THEN [hits EXCEPT ![hit.tax_id] = hit.edit] ELSE hits)
    ELSE hits @@ (hit.tax_id :> hit.edit)

\* taxid_gi_hits.entry((tax_id, gi)).or_insert((edit, offset)), replaced by a hit
\* with a smaller edit, or the same edit and a smaller offset.
TaxIdGiEntry(hits, hit) ==
    LET key == <<hit.tax_id, hit.gi>>
    IN  IF key \in DOMAIN hits
        THEN (IF hit.edit < hits[key][1]
                 \/ (hit.edit = hits[key][1] /\ hit.offset < hits[key][2])
              THEN [hits EXCEPT ![key] = <<hit.edit, hit.offset>>] ELSE hits)
        ELSE hits @@ (key :> <<hit.edit, hit.offset>>)

OffsetFormatOf(b) == IF b THEN "Some(true)" ELSE "Some(false)"

OffsetCheckLax(offset_format, hit) ==
    offset_format = "None" \/ offset_format = OffsetFormatOf(hit.has_offset) \/ hit.has_offset

\* if let Some(expected) = offset_format { expected == hit.has_offset } else { set }
OffsetCheck(offset_format, hit) ==
    offset_format = "None" \/ offset_format = OffsetFormatOf(hit.has_offset)

\* The loop over the parsed hits of one line.
RECURSIVE ReduceHits(_, _, _, _, _)
ReduceHits(hits, mode, taxid_hits, taxid_gi_hits, offset_format) ==
    IF hits = <<>>
    THEN [status |-> "Ok", taxid_hits |-> taxid_hits, taxid_gi_hits |-> taxid_gi_hits,
          offset_format |-> offset_format]
    ELSE LET hit == Head(hits)
             err == [status |-> "InvalidHeader", taxid_hits |-> taxid_hits,
                     taxid_gi_hits |-> taxid_gi_hits, offset_format |-> offset_format]
         IN  IF mode = "TaxId"
             THEN ReduceHits(Tail(hits), mode, TaxIdEntry(taxid_hits, hit),
                             taxid_gi_hits, offset_format)
             ELSE IF ~hit.has_gi THEN err
             ELSE IF ~OffsetCheck(offset_format, hit) THEN err
             ELSE ReduceHits(Tail(hits), mode, taxid_hits,
                             TaxIdGiEntry(taxid_gi_hits, hit),
                             OffsetFormatOf(hit.has_offset))

\* chunk_bytes of collapse_edit_paths: 128 * 1024 * 1024
chunk_bytes == 134217728

-----------------------------------------------------------------------------
(* Claims about the result codec, checked under SpecCodec.                 *)

KeysOf(hits, long) == {HitKey(hits[i], long) : i \in 1..Len(hits)}

MinEditOf(hits, long, k) ==
    LET es == {hits[i].edit : i \in {j \in 1..Len(hits) : HitKey(hits[j], long) = k}}
    IN  CHOOSE e \in es : \A f \in es : e <= f

\* The keys of a hit list, each once, in strictly ascending order.
AscendingKeys(hits, long) ==
    LET K == KeysOf(hits, long)
    IN  CHOOSE s \in [1..Cardinality(K) -> K] :
            \A i, j \in 1..Cardinality(K) : i < j => TupleLess(s[i], s[j])

EntryText(k, e, long) ==
    IF long
    THEN Display(k[1]) \o <<"-">> \o Display(k[2]) \o <<"-">> \o Display(k[3])
            \o <<"=">> \o Display(e)
    ELSE Display(k[1]) \o <<"=">> \o Display(e)

ExpectedLine(header, hits, long) ==
    LET ks == AscendingKeys(hits, long)
    IN  header \o <<":">>
           \o Join([i \in 1..Len(ks) |-> EntryText(ks[i], MinEditOf(hits, long, ks[i]), long)], ",")
           \o <<"\n">>

\* C4: write_assignments writes nothing for an empty hit list; otherwise it
\* writes one line "<read id>:<entries>\n" with exactly one entry per key (the
\* taxid in default mode, (taxid, gi, offset) in long mode), each carrying the
\* minimum edit over the hits with that key, in ascending key order.
C4_WriteAssignments ==
    c_stage = "written" =>
        IF c_hits = <<>> THEN c_line = <<>>
        ELSE c_line = ExpectedLine(c_header, c_hits, c_long)

\* C4 witness: a line was written for a hit list in which one key occurs twice
\* with different edits, next to a second key.
C4_Witness ==
    /\ c_stage = "written"
    /\ c_line # <<>>
    /\ Cardinality(KeysOf(c_hits, c_long)) < Len(c_hits)
    /\ \E i, j \in 1..Len(c_hits) :
          /\ HitKey(c_hits[i], c_long) = HitKey(c_hits[j], c_long)
          /\ c_hits[i].edit > c_hits[j].edit
          /\ i < j

\* The canonical form of a hit list: one hit per key with the minimum edit, in
\* ascending key order (default mode knows the taxid and the edit only).
Canonical(hits, long) ==
    LET ks == AscendingKeys(hits, long)
    IN  [i \in 1..Len(ks) |->
            IF long THEN Hit(ks[i][1], ks[i][2], ks[i][3], MinEditOf(hits, long, ks[i]))
            ELSE [tax_id |-> ks[i][1], edit |-> MinEditOf(hits, long, ks[i])]]

ParsedView(hits, long) ==
    [i \in 1..Len(hits) |->
        IF long THEN hits[i] ELSE [tax_id |-> hits[i].tax_id, edit |-> hits[i].edit]]

\* C5: round trip: for a non-empty hit list, in either output format, parsing
\* the line the writer emitted returns the read id and the canonical form of
\* the hits; parse_findings returns the header and the taxid set that
\* write_single_line wrote.
C5_RoundTrip ==
    /\ (c_stage = "parsed" /\ c_hits # <<>>) =>
          /\ Len(c_parsed) = 1
          /\ c_parsed[1].status = "Ok"
          /\ c_parsed[1].id = c_header
          /\ ParsedView(c_parsed[1].hits, c_long) = Canonical(c_hits, c_long)
    /\ (c_stage = "parsed_ids" /\ c_hits # <<>>) =>
          /\ Len(c_parsed) = 1
          /\ c_parsed[1].status = "Ok"
          /\ c_parsed[1].id = c_header
          /\ c_parsed[1].hits = TaxIdSet(c_hits)

-----------------------------------------------------------------------------
(* The binner: main's resume computation (src/bin/mtsv-binner.rs) and the  *)
(* pipeline of get_fastx_and_write_matching_bin_ids (src/binner.rs).       *)

\* An input record: is it Ok(record) or the Err of the decoder, its id and the hits
\* matching_tax_ids finds for its sequence and for the reverse complement, chained.
\* An Err has neither id nor hits.
RecIds == {<<"a">>, <<"b">>}
RecHitLists == {<<>>, <<Hit(1, 1, 0, 0)>>}
ErrRecord == [ok |-> FALSE, id |-> <<>>, hits |-> <<>>]
Records == [ok : {TRUE}, id : RecIds, hits : RecHitLists] \cup {ErrRecord}

\* OUTPUT_FORMAT: the default format.
long_info_output == FALSE

\* The bytes an in-order run over the records from index `from` on writes.
RECURSIVE OutputFrom(_, _)
OutputFrom(recs, from) ==
    IF from >= Len(recs) THEN <<>>
    ELSE write_assignments(recs[from + 1].id, recs[from + 1].hits, long_info_output)
            \o OutputFrom(recs, from + 1)

Prefixes(s) == {SubSeq(s, 1, n) : n \in 0..Len(s)}

\* read_ids_from_results over the lines of the results file, in order.
RECURSIVE ReadIdsFromLines(_, _)
ReadIdsFromLines(ls, ids) ==
    IF ls = <<>> THEN [ok |-> TRUE, ids |-> ids]
    ELSE IF Trim(Head(ls)) = <<>> THEN ReadIdsFromLines(Tail(ls), ids)
    ELSE LET halves == RSplitN2(Head(ls), ":")
         IN  IF Len(halves) < 2 \/ halves[2] = <<>> THEN [ok |-> FALSE, ids |-> {}]
             ELSE ReadIdsFromLines(Tail(ls), ids \cup {halves[2]})

read_ids_from_results(file) == ReadIdsFromLines(Lines(file), {})

\* The loop of resume_offset_from_results: last_idx after records idx.. (None is -1),
\* DecodeErr when `record.map_err(..)?` returns.
DecodeErr == 0 - 2

RECURSIVE LastIdx(_, _, _, _)
LastIdx(recs, ids, idx, last) ==
    IF idx >= Len(recs) THEN last
    ELSE IF ~recs[idx + 1].ok THEN DecodeErr
    ELSE LastIdx(recs, ids, idx + 1, IF recs[idx + 1].id \in ids THEN idx ELSE last)

resume_offset_no_increment(file, recs) ==
    LET r == read_ids_from_results(file)
    IN  IF ~r.ok THEN [ok |-> FALSE, val |-> 0, decode |-> FALSE]
        ELSE LET last == LastIdx(recs, r.ids, 0, -1)
             IN  IF last = DecodeErr THEN [ok |-> FALSE, val |-> 0, decode |-> TRUE]
                 ELSE [ok |-> TRUE, val |-> IF last = -1 THEN 0 ELSE last,
                       decode |-> FALSE]

resume_offset_from_results(file, recs) ==
    LET r == read_ids_from_results(file)
    IN  IF ~r.ok THEN [ok |-> FALSE, val |-> 0, decode |-> FALSE]
        ELSE LET last == LastIdx(recs, r.ids, 0, -1)
             IN  IF last = DecodeErr THEN [ok |-> FALSE, val |-> 0, decode |-> TRUE]
                 ELSE [ok |-> TRUE, val |-> IF last = -1 THEN 0 ELSE last + 1,
                       decode |-> FALSE]

resume_offset_if_exists(exists, file, recs) ==
    IF ~exists THEN [ok |-> TRUE, val |-> 0, decode |-> FALSE]
    ELSE resume_offset_from_results(file, recs)

BinInit ==
    /\ input \in SeqsOf(Records, 0, MaxReads)
    /\ num_threads \in 1..MaxThreads
    /\ arg_read_offset \in 0..MaxOffset
    /\ force_overwrite \in BOOLEAN
    /\ file_exists \in BOOLEAN
    \* an existing results file is what an earlier run with the same parameters
    \* left behind: any truncation of its output
    /\ results_file \in (IF file_exists THEN Prefixes(OutputFrom(input, arg_read_offset))
                         ELSE {<<>>})
    /\ pc = "main"
    /\ failure = "none"
    /\ exit_code = -1
    /\ append_results = FALSE
    /\ read_offset = 0
    /\ next_rec = 0
    /\ workers = <<>>
    /\ result_queue = <<>>
    /\ handed = <<>>
    /\ processed = {}
    /\ CodecIdle /\ ColIdle /\ AuxIdle

\* main: append_results, the resume offset (exit code 4 when it cannot be
\* computed) and read_offset + resume_offset.
ResumeOffset ==
    /\ pc = "main"
    /\ append_results' = (~force_overwrite /\ file_exists)
    /\ LET resume == IF force_overwrite THEN [ok |-> TRUE, val |-> 0, decode |-> FALSE]
                     ELSE resume_offset_if_exists(file_exists, results_file, input)
       IN  /\ failure' = (IF resume.decode THEN "decode" ELSE failure)
           /\ IF resume.ok
              THEN /\ read_offset' = arg_read_offset + resume.val
                   /\ pc' = "open"
                   /\ exit_code' = exit_code
              ELSE /\ read_offset' = read_offset
                   /\ pc' = "exit"
                   /\ exit_code' = 4
    /\ UNCHANGED <<input, num_threads, arg_read_offset, force_overwrite, file_exists,
                   results_file, next_rec, workers, result_queue, handed, processed,
                   codecVars, colVars, auxVars>>

\* get_fastx_and_write_matching_bin_ids up to the pipeline call: the test parse of
\* the first record (unwrap of None on an empty input panics, exit code 101; the `?`
\* on an Err returns it and main exits with code 2), the output file opened in
\* append mode or created afresh, records().skip(read_offset), which drops the
\* first read_offset items of the iterator, Ok or Err.
OpenOutput ==
    /\ pc = "open"
    /\ IF input = <<>>
       THEN /\ pc' = "exit"
            /\ exit_code' = 101
            /\ UNCHANGED <<failure, results_file, file_exists, next_rec, workers>>
       ELSE IF ~input[1].ok
       THEN /\ pc' = "exit"
            /\ exit_code' = 2
            /\ failure' = "decode"
            /\ UNCHANGED <<results_file, file_exists, next_rec, workers>>
       ELSE /\ pc' = "pipeline"
            /\ exit_code' = exit_code
            /\ failure' = (IF \E i \in 1..Len(input) : i <= read_offset /\ ~input[i].ok
                           THEN "decode" ELSE failure)
            /\ results_file' = (IF append_results THEN results_file ELSE <<>>)
            /\ file_exists' = TRUE
            /\ next_rec' = read_offset
            /\ workers' = [w \in 1..num_threads |-> 0]
    /\ UNCHANGED <<input, num_threads, arg_read_offset, force_overwrite,
                   append_results, read_offset, result_queue, handed, processed,
                   codecVars, colVars, auxVars>>

\* A worker thread takes the next item of the records iterator; on an Err the
\* closure calls exit(12), which ends the process with its threads.
WorkerTake(w) ==
    /\ pc = "pipeline"
    /\ workers[w] = 0
    /\ next_rec < Len(input)
    /\ next_rec' = next_rec + 1
    /\ IF input[next_rec + 1].ok
       THEN /\ workers' = [workers EXCEPT ![w] = next_rec + 1]
            /\ processed' = processed \cup {next_rec + 1}
            /\ UNCHANGED <<failure, pc, exit_code>>
       ELSE /\ failure' = "decode"
            /\ pc' = "exit"
            /\ exit_code' = 12
            /\ UNCHANGED <<workers, processed>>
    /\ UNCHANGED <<input, num_threads, arg_read_offset, force_overwrite, file_exists,
                   results_file, append_results, read_offset,
                   result_queue, handed, codecVars, colVars, auxVars>>

\* The worker completes and its result is lost on the way to the writer.
WorkerFinishDropped(w) ==
    /\ pc = "pipeline"
    /\ workers[w] # 0
    /\ workers' = [workers EXCEPT ![w] = 0]
    /\ UNCHANGED <<input, failure, num_threads, arg_read_offset, force_overwrite, file_exists,
                   results_file, pc, exit_code, append_results, read_offset, next_rec,
                   result_queue, handed, processed, codecVars, colVars, auxVars>>

\* The worker closure returns (record.id, hits); the pipeline passes the result on
\* to the writer thread as the worker completes.
WorkerFinish(w) ==
    /\ pc = "pipeline"
    /\ workers[w] # 0
    /\ result_queue' = Append(result_queue,
                              [idx |-> workers[w],
                               header |-> input[workers[w]].id,
                               hits |-> input[workers[w]].hits])
    /\ workers' = [workers EXCEPT ![w] = 0]
    /\ UNCHANGED <<input, failure, num_threads, arg_read_offset, force_overwrite, file_exists,
                   results_file, pc, exit_code, append_results, read_offset, next_rec,
                   handed, processed, codecVars, colVars, auxVars>>

\* The writer closure: write_assignments(&header, &edit_distances, &mut result_writer).
Writer ==
    /\ pc = "pipeline"
    /\ result_queue # <<>>
    /\ LET r == Head(result_queue)
       IN  /\ results_file' = results_file \o write_assignments(r.header, r.hits, long_info_output)
           /\ handed' = Append(handed, r.idx)
    /\ result_queue' = Tail(result_queue)
    /\ UNCHANGED <<input, failure, num_threads, arg_read_offset, force_overwrite, file_exists,
                   pc, exit_code, append_results, read_offset, next_rec, workers,
                   processed, codecVars, colVars, auxVars>>

\* write_assignments returns an Err (a write to the BufWriter that reaches the file
\* fails): the writer closure calls exit(11).
WriterFails ==
    /\ pc = "pipeline"
    /\ result_queue # <<>>
    /\ Head(result_queue).hits # <<>>
    /\ failure' = "write"
    /\ pc' = "exit"
    /\ exit_code' = 11
    /\ UNCHANGED <<input, num_threads, arg_read_offset, force_overwrite, file_exists,
                   results_file, append_results, read_offset, next_rec, workers,
                   result_queue, handed, processed, codecVars, colVars, auxVars>>

\* pipeline returns once the iterator is exhausted and every result is written;
\* main exits with code 0.
Finish ==
    /\ pc = "pipeline"
    /\ next_rec >= Len(input)
    /\ \A w \in 1..num_threads : workers[w] = 0
    /\ result_queue = <<>>
    /\ pc' = "exit"
    /\ exit_code' = 0
    /\ UNCHANGED <<input, failure, num_threads, arg_read_offset, force_overwrite, file_exists,
                   results_file, append_results, read_offset, next_rec, workers,
                   result_queue, handed, processed, codecVars, colVars, auxVars>>

BinNext ==
    \/ ResumeOffset
    \/ OpenOutput
    \/ \E w \in 1..num_threads : WorkerTake(w)
    \/ \E w \in 1..num_threads : WorkerFinish(w)
    \/ Writer
    \/ WriterFails
    \/ Finish

SpecBin == BinInit /\ [][BinNext]_vars

-----------------------------------------------------------------------------
(* Claims about the binner, checked under SpecBin.                         *)

\* C1: the writer receives the per-read results in the order of the input
\* records: if record i precedes record j, the result of i is handed to the
\* writer before the result of j.
C1_WriterOrder ==
    \A i, j \in 1..Len(handed) : i < j => handed[i] < handed[j]

\* C2: a run that resumes from a truncated results file (no --force-overwrite,
\* output opened in append mode) ends with a results file byte-for-byte equal
\* to the one an uninterrupted run from scratch writes.
C2_ResumeCorrect ==
    (pc = "exit" /\ append_results) =>
        results_file = OutputFrom(input, arg_read_offset)

\* Does id occur as the read id (the text before the last ':') of a line of file.
OccursAsReadId(id, file) ==
    LET ls == Lines(file)
    IN  \E n \in 1..Len(ls) : \E k \in 1..Len(ls[n]) :
            /\ ls[n][k] = ":"
            /\ SubSeq(ls[n], 1, k - 1) = id
            /\ \A j \in (k + 1)..Len(ls[n]) : ls[n][j] # ":"

ExpectedStart ==
    IF ~force_overwrite /\ file_exists
    THEN LET S == {i \in 0..(Len(input) - 1) : OccursAsReadId(input[i + 1].id, results_file)}
         IN  arg_read_offset
                + (IF S = {} THEN 0 ELSE (CHOOSE i \in S : \A j \in S : j <= i) + 1)
    ELSE arg_read_offset

\* C3: when main goes on to run the binner, the start index is read_offset plus
\* (last_index + 1), last_index being the largest input index whose id occurs as a
\* read id in the existing results file (plus 0 when there is none), and
\* read_offset alone with --force-overwrite or without a results file; no record
\* below the start index is ever processed or written.
C3_StartIndex ==
    /\ [][(pc = "main" /\ pc' = "open") => read_offset' = ExpectedStart]_vars
    /\ [](\A i \in processed \cup {handed[n] : n \in 1..Len(handed)} : i > read_offset)

\* C3 witness: a run resumed past the records already in the results file and
\* wrote a later record.
C3_Witness ==
    /\ pc = "exit" /\ exit_code = 0
    /\ append_results
    /\ read_offset > arg_read_offset
    /\ handed # <<>>

\* C14: every failure of the decoder on an input record ends the process with
\* exit code 12 and every failure to write a result line ends it with exit code
\* 11; after either failure no further result line is written.
C14_ExitCodes ==
    /\ [](failure = "decode" => (pc = "exit" /\ exit_code = 12))
    /\ [](failure = "write" => (pc = "exit" /\ exit_code = 11))
    /\ [][failure # "none" => results_file' = results_file]_vars

-----------------------------------------------------------------------------
(* Specification SpecCollapse: collapse_edit_paths over bounded inputs.    *)

\* Result lines the input files are made of, per mode, as <<read id, tokens>>,
\* a token being its '-'-separated key fields followed by the edit.
TaxIdLines ==
    { <<<<"a">>, << <<1, 5>>, <<2, 9>> >> >>,
      <<<<"a">>, << <<1, 2>>, <<2, 10>> >> >>,
      <<<<"a">>, << <<3, 3>> >> >>,
      <<<<"b">>, << <<2, EditMax>> >> >>,
      <<<<"b">>, << <<1, 5, 3, 7>> >> >> }

TaxIdGiLines ==
    { <<<<"a">>, << <<1, 5, 3, 7>>, <<1, 5, 2, 4>> >> >>,
      <<<<"b">>, << <<1, 5, 4, 5>>, <<2, 8, 1, 6>> >> >>,
      <<<<"a">>, << <<1, 5, 1, 4>> >> >>,
      <<<<"b">>, << <<1, 5, 4>> >> >>,
      <<<<"a">>, << <<1, 4>> >> >> }

LinePool(mode) == IF mode = "TaxId" THEN TaxIdLines ELSE TaxIdGiLines

RenderLine(l) ==
    l[1] \o <<":">> \o Join([i \in 1..Len(l[2]) |-> FormatItem(l[2][i])], ",") \o <<"\n">>

\* The text of file f when line n of ls goes to file place[n].
RECURSIVE FileText(_, _, _, _)
FileText(ls, place, f, n) ==
    IF n > Len(ls) THEN <<>>
    ELSE (IF place[n] = f THEN RenderLine(ls[n]) ELSE <<>>) \o FileText(ls, place, f, n + 1)

ColInit ==
    /\ k_mode \in {"TaxId", "TaxIdGi"}
    /\ k_delta \in 0..MaxDelta
    /\ \E nf \in 1..MaxFiles : \E ls \in SeqsOf(LinePool(k_mode), 0, MaxLines) :
         \E place \in [1..Len(ls) -> 1..nf] :
            k_files = [f \in 1..nf |-> FileText(ls, place, f, 1)]
    /\ k_sorted = [f \in 1..Len(k_files) |-> [status |-> "Ok", lines |-> <<>>]]
    /\ k_running = {}
    /\ k_done = {}
    /\ k_pos = [f \in 1..Len(k_files) |-> 0]
    /\ k_heap = {}
    /\ k_current_id = <<>>
    /\ k_taxid_hits = EmptyMap
    /\ k_taxid_gi_hits = EmptyMap
    /\ k_offset_format = "None"
    /\ k_out = <<>>
    /\ k_status = "sorting"
    /\ CodecIdle /\ BinIdle /\ AuxIdle

\* main: --threads is parsed into max_threads and handed to collapse_edit_paths as
\* its fourth argument, which is edit_delta.
max_threads == k_delta

\* sort_files_in_parallel: `for (idx, path) in paths.iter().enumerate()` spawns the
\* thread of the next file; thread::spawn returns at once.
SpawnSortWorker ==
    /\ k_status = "sorting"
    /\ Cardinality(k_running \cup k_done) < Len(k_files)
    /\ k_running' = k_running \cup {Cardinality(k_running \cup k_done) + 1}
    /\ UNCHANGED <<k_files, k_mode, k_delta, k_sorted, k_done, k_pos, k_heap, k_current_id,
                   k_taxid_hits, k_taxid_gi_hits, k_offset_format, k_out, k_status,
                   codecVars, binVars, auxVars>>

\* sort_files_in_parallel: the thread spawned for file idx runs external_sort_file.
SortWorker(idx) ==
    /\ k_status = "sorting"
    /\ idx \in k_running
    /\ k_sorted' = [k_sorted EXCEPT ![idx] = external_sort_file(k_files[idx], chunk_bytes)]
    /\ k_running' = k_running \ {idx}
    /\ k_done' = k_done \cup {idx}
    /\ UNCHANGED <<k_files, k_mode, k_delta, k_pos, k_heap, k_current_id, k_taxid_hits,
                   k_taxid_gi_hits, k_offset_format, k_out, k_status, codecVars, binVars, auxVars>>

\* sort_files_in_parallel joins the handles in order and returns the first error;
\* collapse_sorted_files then opens the sorted files and fills the heap.
MergeStart ==
    /\ k_status = "sorting"
    /\ k_done = 1..Len(k_files)
    /\ LET failed == {i \in 1..Len(k_files) : k_sorted[i].status # "Ok"}
           nonempty == {i \in 1..Len(k_files) : k_sorted[i].lines # <<>>}
       IN  IF failed # {}
           THEN /\ k_status' = k_sorted[MinOf(failed)].status
                /\ UNCHANGED <<k_pos, k_heap>>
           ELSE /\ k_status' = "merging"
                /\ k_pos' = [i \in 1..Len(k_files) |-> IF i \in nonempty THEN 1 ELSE 0]
                /\ k_heap' = {HeapItem(k_sorted[i].lines[1], i) : i \in nonempty}
    /\ UNCHANGED <<k_files, k_mode, k_delta, k_sorted, k_running, k_done, k_current_id, k_taxid_hits,
                   k_taxid_gi_hits, k_offset_format, k_out, codecVars, binVars, auxVars>>

\* One iteration of `while let Some(item) = heap.pop()` in collapse_sorted_files.
MergeStep ==
    /\ k_status = "merging"
    /\ k_heap # {}
    /\ LET item == HeapPop(k_heap)
           sl == split_line(item.line)
           flush == k_current_id # <<>> /\ k_current_id # sl.read_id
           flushed == IF flush
                      THEN FlushLines(k_current_id, k_mode, k_delta, k_taxid_hits,
                                      k_taxid_gi_hits, k_offset_format)
                      ELSE <<>>
           parsed == parse_hits(sl.hits)
           red == ReduceHits(parsed.hits, k_mode,
                             IF flush THEN EmptyMap ELSE k_taxid_hits,
                             IF flush THEN EmptyMap ELSE k_taxid_gi_hits,
                             k_offset_format)
           more == k_pos[item.idx] < Len(k_sorted[item.idx].lines)
       IN  IF sl.status # "Ok"
           THEN /\ k_status' = sl.status
                /\ UNCHANGED <<k_pos, k_heap, k_current_id, k_taxid_hits, k_taxid_gi_hits,
                               k_offset_format, k_out>>
           ELSE /\ k_out' = k_out \o flushed
                /\ k_current_id' = sl.read_id
                /\ IF parsed.status # "Ok" \/ red.status # "Ok"
                   THEN /\ k_status' = (IF parsed.status # "Ok" THEN parsed.status
                                        ELSE red.status)
                        /\ k_taxid_hits' = red.taxid_hits
                        /\ k_taxid_gi_hits' = red.taxid_gi_hits
                        /\ k_offset_format' = red.offset_format
                        /\ UNCHANGED <<k_pos, k_heap>>
                   ELSE /\ k_status' = k_status
                        /\ k_taxid_hits' = red.taxid_hits
                        /\ k_taxid_gi_hits' = red.taxid_gi_hits
                        /\ k_offset_format' = red.offset_format
                        /\ k_pos' = (IF more THEN [k_pos EXCEPT ![item.idx] = @ + 1]
                                     ELSE k_pos)
                        /\ k_heap' = (k_heap \ {item}) \cup
                              (IF more
                               THEN {HeapItem(k_sorted[item.idx].lines[k_pos[item.idx] + 1],
                                              item.idx)}
                               ELSE {})
    /\ UNCHANGED <<k_files, k_mode, k_delta, k_sorted, k_running, k_done, codecVars, binVars, auxVars>>

\* The heap is empty: the last read id is flushed and Ok(()) returned.
MergeEnd ==
    /\ k_status = "merging"
    /\ k_heap = {}
    /\ k_out' = k_out \o (IF k_current_id # <<>>
                          THEN FlushLines(k_current_id, k_mode, k_delta, k_taxid_hits,
                                          k_taxid_gi_hits, k_offset_format)
                          ELSE <<>>)
    /\ k_status' = "Ok"
    /\ UNCHANGED <<k_files, k_mode, k_delta, k_sorted, k_running, k_done, k_pos, k_heap, k_current_id,
                   k_taxid_hits, k_taxid_gi_hits, k_offset_format, codecVars, binVars, auxVars>>

ColNext ==
    \/ SpawnSortWorker
    \/ \E idx \in 1..Len(k_files) : SortWorker(idx)
    \/ MergeStart
    \/ MergeStep
    \/ MergeEnd

SpecCollapse == ColInit /\ [][ColNext]_vars

-----------------------------------------------------------------------------
(* Claims about the collapser, checked under SpecCollapse.                 *)

\* The lines of all input files, and what they hold for one read id.
InputLines == UNION {{RawLines(k_files[f])[n] : n \in 1..Len(RawLines(k_files[f]))} :
                     f \in 1..Len(k_files)}

InputIds == {split_line(l).read_id : l \in InputLines}

HitsOfLine(l) ==
    LET hs == parse_hits(split_line(l).hits).hits IN {hs[i] : i \in 1..Len(hs)}

AllInputHits == UNION {HitsOfLine(l) : l \in InputLines}

InputHits(id) == UNION {HitsOfLine(l) : l \in {x \in InputLines : split_line(x).read_id = id}}

\* The entries of the output lines written for one read id.
OutputHits(id) ==
    UNION {HitsOfLine(k_out[n]) : n \in {m \in 1..Len(k_out) : split_line(k_out[m]).read_id = id}}

\* C6: in taxid mode with edit delta 0 the collapsed line of each read id holds
\* every taxid that occurs for the read id in any input file, each with the
\* minimum edit over all its occurrences.
C6_TaxIdMinEdit ==
    (k_status = "Ok" /\ k_mode = "TaxId" /\ k_delta = 0) =>
        \A id \in InputIds : \A h \in InputHits(id) :
            \E o \in OutputHits(id) :
                /\ o.tax_id = h.tax_id
                /\ o.edit = MinOf({g.edit : g \in {x \in InputHits(id) : x.tax_id = h.tax_id}})

\* C7: in taxid-gi mode the collapser keeps, for every read id and every
\* (taxid, gi) pair occurring for it, the minimum edit over all occurrences, with
\* the smallest offset among the occurrences that attain that minimum.
C7_TaxIdGiMinEdit ==
    (k_status = "Ok" /\ k_mode = "TaxIdGi") =>
        \A id \in InputIds : \A h \in InputHits(id) :
            LET same == {x \in InputHits(id) : x.tax_id = h.tax_id /\ x.gi = h.gi}
                best == MinOf({g.edit : g \in same})
            IN  \E o \in OutputHits(id) :
                    /\ o.tax_id = h.tax_id /\ o.gi = h.gi
                    /\ o.edit = best
                    /\ o.offset = MinOf({g.offset : g \in {x \in same : x.edit = best}})

\* The reducer of one read id: per key (the taxid, or the (taxid, gi) pair) the
\* minimum edit over all files.
ReducerKey(h) == IF k_mode = "TaxId" THEN <<h.tax_id>> ELSE <<h.tax_id, h.gi>>

Reduced(id) ==
    {[key |-> ReducerKey(h),
      edit |-> MinOf({g.edit : g \in {x \in InputHits(id) : ReducerKey(x) = ReducerKey(h)}})] :
        h \in InputHits(id)}

MinEditOfRead(id) == MinOf({e.edit : e \in Reduced(id)})

ExpectedKept(id) == {e \in Reduced(id) : e.edit <= MinEditOfRead(id) + k_delta}

OutputKept(id) == {[key |-> ReducerKey(h), edit |-> h.edit] : h \in OutputHits(id)}

HitTuple(h) == <<h.tax_id, h.gi, h.offset, h.edit>>

\* C9: the output has at most one line per read id, its lines are in strictly
\* ascending read-id order, and the entries of a line are sorted by tax_id,
\* then gi, then offset, then edit.
C9_OutputSorted ==
    /\ \A n \in 1..(Len(k_out) - 1) :
          StrLess(split_line(k_out[n]).read_id, split_line(k_out[n + 1]).read_id)
    /\ \A n \in 1..Len(k_out) :
          LET hs == parse_hits(split_line(k_out[n]).hits).hits
          IN  \A i \in 1..(Len(hs) - 1) : TupleLess(HitTuple(hs[i]), HitTuple(hs[i + 1]))

\* C9 witness: a finished run over two files in which a read id occurs in both,
\* that wrote two lines, one of them with two entries.
C9_Witness ==
    /\ k_status = "Ok"
    /\ Len(k_files) = 2
    /\ \E l1 \in {RawLines(k_files[1])[n] : n \in 1..Len(RawLines(k_files[1]))} :
          \E l2 \in {RawLines(k_files[2])[n] : n \in 1..Len(RawLines(k_files[2]))} :
              split_line(l1).read_id = split_line(l2).read_id
    /\ Len(k_out) = 2
    /\ \E n \in 1..Len(k_out) : Len(parse_hits(split_line(k_out[n]).hits).hits) >= 2

C17_ThreadLimit ==
    max_threads >= 1 => Cardinality(k_running) <= max_threads

-----------------------------------------------------------------------------
(* Index construction: io.rs parse_fasta_db and index.rs MGIndex::new.     *)

\* The keys of a BTreeMap in iteration (ascending) order.
RECURSIVE SortedKeys(_)
SortedKeys(S) ==
    IF S = {} THEN <<>>
    ELSE LET m == CHOOSE x \in S : \A y \in S : x <= y
         IN <<m>> \o SortedKeys(S \ {m})

\* io.rs parse_fasta_db: taxon_map.entry(tax_id).or_insert_with(Vec::new)
\* .push((gi, record.seq().to_vec())), record after record.
RECURSIVE parse_fasta_db(_, _)
parse_fasta_db(records, taxon_map) ==
    IF records = <<>> THEN taxon_map
    ELSE LET record == Head(records)
             entry == [gi |-> record.gi, seq |-> record.seq]
             next == IF record.tax_id \in DOMAIN taxon_map
                     THEN [taxon_map EXCEPT ![record.tax_id] = Append(@, entry)]
                     ELSE taxon_map @@ (record.tax_id :> <<entry>>)
         IN parse_fasta_db(Tail(records), next)

\* for (tax_id, references) in reference { for (gi, reference) in references }:
\* the (tax_id, gi, reference) triples in the order the two loops visit them.
RECURSIVE ReferencesOf(_, _)
ReferencesOf(reference, keys) ==
    IF keys = <<>> THEN <<>>
    ELSE [i \in 1..Len(reference[Head(keys)]) |->
             [tax_id |-> Head(keys),
              gi |-> reference[Head(keys)][i].gi,
              seq |-> reference[Head(keys)][i].seq]]
         \o ReferencesOf(reference, Tail(keys))

\* index.rs Bin.
Bin(gi, tax_id, start, end) == [gi |-> gi, tax_id |-> tax_id, start |-> start, end |-> end]

\* The body of the two loops: one Bin per reference, the bytes appended to seq.
RECURSIVE ConcatReferences(_, _, _)
ConcatReferences(refs, seq, bins) ==
    IF refs = <<>> THEN [seq |-> seq, bins |-> bins]
    ELSE LET r == Head(refs)
             bin == Bin(r.gi, r.tax_id, Len(seq), Len(seq) + Len(r.seq))
         IN ConcatReferences(Tail(refs), seq \o r.seq, Append(bins, bin))

\* The match that converts one byte to the DNA5 alphabet, with the arm for
\* lowercase letters left out.
to_dna5_no_lowercase(b) ==
    IF b \in {"A", "C", "G", "T", "N"} THEN b ELSE "N"

\* The match that converts one byte to the DNA5 alphabet.
to_dna5(b) ==
    IF b \in {"A", "C", "G", "T", "N"} THEN b
    ELSE IF b = "a" THEN "A"
    ELSE IF b = "c" THEN "C"
    ELSE IF b = "g" THEN "G"
    ELSE IF b = "t" THEN "T"
    ELSE "N"

\* MGIndex::new: the concatenated, case-folded sequences with the sentinel and
\* the bins (the suffix array is a function of the sequences).
MGIndex_new(reference) ==
    LET cat == ConcatReferences(ReferencesOf(reference, SortedKeys(DOMAIN reference)),
                                <<>>, <<>>)
    IN [sequences |-> [i \in 1..Len(cat.seq) |-> to_dna5(cat.seq[i])] \o <<"$">>,
        bins |-> cat.bins]

\* str::to_lowercase on the bytes of the model.
to_lowercase(b) ==
    IF b = "A" THEN "a" ELSE IF b = "C" THEN "c" ELSE IF b = "G" THEN "g"
    ELSE IF b = "T" THEN "t" ELSE IF b = "N" THEN "n" ELSE IF b = "X" THEN "x"
    ELSE b

\* test::construct_index_lowercase: every sequence of the database lowercased.
LowercaseDb(db) ==
    [t \in DOMAIN db |->
        [i \in 1..Len(db[t]) |->
            [gi |-> db[t][i].gi,
             seq |-> [j \in 1..Len(db[t][i].seq) |-> to_lowercase(db[t][i].seq[j])]]]]

-----------------------------------------------------------------------------
(* Specification SpecIndex: a FASTA database is parsed and indexed, as is   *)
(* and lowercased.                                                         *)

DbBytes == {"A", "c", "N", "X"}
DbTaxIds == {1, 2}
DbGis == {5, 6}
DbRecords ==
    {[gi |-> g, tax_id |-> t, seq |-> s] :
        g \in DbGis, t \in DbTaxIds, s \in SeqsOf(DbBytes, 0, MaxSeqLen)}

IdxInit ==
    /\ i_records \in SeqsOf(DbRecords, 0, MaxRecs)
    /\ i_db = <<>>
    /\ i_uppercase = NoIndex
    /\ i_lowercase = NoIndex
    /\ i_stage = "parse"
    /\ CodecIdle /\ BinIdle /\ ColIdle /\ FsIdle /\ SeedIdle /\ QryIdle /\ WrkIdle
    /\ overflow_checks = FALSE

\* builder.rs build_and_write_index: parse_fasta_db(records).
ParseFastaDb ==
    /\ i_stage = "parse"
    /\ i_db' = parse_fasta_db(i_records, EmptyMap)
    /\ i_stage' = "parsed"
    /\ UNCHANGED <<i_records, i_uppercase, i_lowercase, codecVars, binVars, colVars, fsVars,
                   seedVars, overflow_checks, qryVars,
                   wrkVars>>

\* MGIndex::new over the database.
NewUppercase ==
    /\ i_stage = "parsed"
    /\ i_uppercase = NoIndex
    /\ i_uppercase' = MGIndex_new(i_db)
    /\ UNCHANGED <<i_records, i_db, i_lowercase, i_stage, codecVars, binVars, colVars, fsVars,
                   seedVars, overflow_checks, qryVars,
                   wrkVars>>

\* MGIndex::new over the lowercased database.
NewLowercase ==
    /\ i_stage = "parsed"
    /\ i_lowercase = NoIndex
    /\ i_lowercase' = MGIndex_new(LowercaseDb(i_db))
    /\ UNCHANGED <<i_records, i_db, i_uppercase, i_stage, codecVars, binVars, colVars, fsVars,
                   seedVars, overflow_checks, qryVars,
                   wrkVars>>

IdxNext ==
    \/ ParseFastaDb
    \/ NewUppercase
    \/ NewLowercase

SpecIndex == IdxInit /\ [][IdxNext]_vars

-----------------------------------------------------------------------------
(* Claims about index construction, checked under SpecIndex.               *)

\* C11: MGIndex::new(R) and MGIndex::new(lowercase(R)) have the same
\* concatenated corpus, whose bytes are all among A, C, G, T, N except the
\* last, which is the only '$'.
C11_CaseInsensitive ==
    (i_uppercase # NoIndex /\ i_lowercase # NoIndex) =>
        /\ i_uppercase.sequences = i_lowercase.sequences
        /\ i_uppercase.bins = i_lowercase.bins
        /\ LET s == i_uppercase.sequences
           IN /\ Len(s) >= 1
              /\ s[Len(s)] = "$"
              /\ \A i \in 1..(Len(s) - 1) : s[i] \in {"A", "C", "G", "T", "N"}

\* A database with uppercase, lowercase and foreign bytes was indexed both ways.
C11_Witness ==
    /\ i_uppercase # NoIndex /\ i_lowercase # NoIndex
    /\ \E i \in 1..Len(i_records) :
          \E j, k \in 1..Len(i_records[i].seq) :
              i_records[i].seq[j] = "A" /\ i_records[i].seq[k] = "c"
    /\ \E i \in 1..Len(i_records) :
          \E j \in 1..Len(i_records[i].seq) : i_records[i].seq[j] = "X"

\* C12: the bin table of every index: end > start in every bin, bins[1]
\* starts at 0, consecutive bins are contiguous, the last bin ends at the
\* sentinel, and bins ascend by tax_id, in insertion order within a tax_id.
C12_BinTable ==
    i_uppercase # NoIndex =>
        LET bins == i_uppercase.bins
            s == i_uppercase.sequences
            n == Len(bins)
        IN /\ \A i \in 1..n : bins[i].end > bins[i].start
           /\ n >= 1 => bins[1].start = 0
           /\ \A i \in 1..(n - 1) : bins[i].end = bins[i + 1].start
           /\ n >= 1 => (bins[n].end = Len(s) - 1 /\ s[Len(s)] = "$")
           /\ \A i \in 1..(n - 1) : bins[i].tax_id <= bins[i + 1].tax_id
           /\ \A t \in DbTaxIds :
                 LET ofTax == SelectSeq(i_records, LAMBDA r : r.tax_id = t)
                     binsOf == SelectSeq(bins, LAMBDA b : b.tax_id = t)
                 IN /\ Len(ofTax) = Len(binsOf)
                    /\ \A i \in 1..Len(ofTax) :
                          /\ binsOf[i].gi = ofTax[i].gi
                          /\ binsOf[i].end - binsOf[i].start = Len(ofTax[i].seq)

-----------------------------------------------------------------------------
(* Candidate windows: index.rs SeedHit::candidate_indices.                 *)

\* cmp::max, cmp::min
Max2(a, b) == IF a >= b THEN a ELSE b
Min2(a, b) == IF a <= b THEN a ELSE b

\* The value that stands for an arithmetic overflow panic.
Overflow == 0 - 1

\* a - b on usize: a build with overflow checks panics when b > a, a build
\* without them wraps around.
usize_sub(a, b) ==
    IF a = Overflow \/ b = Overflow THEN Overflow
    ELSE IF b <= a THEN a - b
    ELSE IF overflow_checks THEN Overflow
    ELSE a - b + UsizeMax + 1

\* index.rs SeedHit.
SeedHit(reference_offset, query_offset) ==
    [reference_offset |-> reference_offset, query_offset |-> query_offset]

\* Option<(usize, usize)>, and the panic of an overflow check.
SomeIndices(start, end) == [kind |-> "Some", start |-> start, end |-> end]
NoIndices == [kind |-> "None", start |-> 0, end |-> 0]
PanicIndices == [kind |-> "Panic", start |-> 0, end |-> 0]

\* candidate_indices with the last line of its rejection test (the candidate
\* would be too short) left out.
candidate_indices_no_length(seed_hit, bin, read_len, edit_distance) ==
    LET site == seed_hit.reference_offset
        seed_offset == seed_hit.query_offset
        start_offset == seed_offset + edit_distance
        diff == usize_sub(site, start_offset)
        cand_start == IF diff < bin.start \/ start_offset > site THEN bin.start ELSE diff
        rest == usize_sub(read_len, seed_offset)
        end0 == site + rest + edit_distance
        cand_end == IF end0 > bin.end THEN bin.end ELSE end0
    IN IF diff = Overflow \/ rest = Overflow THEN PanicIndices
       ELSE IF cand_start > cand_end \/ cand_start < bin.start \/ cand_end > bin.end
       THEN NoIndices
       ELSE SomeIndices(cand_start, cand_end)

\* SeedHit::candidate_indices. The subtraction site - start_offset is evaluated
\* before the test start_offset > site that follows it in the same condition.
candidate_indices(seed_hit, bin, read_len, edit_distance) ==
    LET site == seed_hit.reference_offset
        seed_offset == seed_hit.query_offset
        start_offset == seed_offset + edit_distance
        diff == usize_sub(site, start_offset)
        cand_start == IF diff < bin.start \/ start_offset > site THEN bin.start ELSE diff
        rest == usize_sub(read_len, seed_offset)
        end0 == site + rest + edit_distance
        cand_end == IF end0 > bin.end THEN bin.end ELSE end0
        min_len == usize_sub(read_len, edit_distance)
    IN IF diff = Overflow \/ rest = Overflow THEN PanicIndices
       ELSE IF cand_start > cand_end \/ cand_start < bin.start \/ cand_end > bin.end
       THEN NoIndices
       ELSE IF min_len = Overflow THEN PanicIndices
       ELSE IF cand_end - cand_start < min_len THEN NoIndices
       ELSE SomeIndices(cand_start, cand_end)

-----------------------------------------------------------------------------
(* Reference candidates: index.rs ReferenceCandidate and                   *)
(* MGIndex::coalesce_seed_sites.                                           *)

\* index.rs ReferenceCandidate (the index reference is left out).
ReferenceCandidate(reference_start, reference_end_excl, bin, num_seeds) ==
    [reference_start |-> reference_start, reference_end_excl |-> reference_end_excl,
     bin |-> bin, num_seeds |-> num_seeds]

\* Option<ReferenceCandidate>::None: a candidate always has num_seeds >= 1.
NoCandidate == ReferenceCandidate(0, 0, Bin(0, 0, 0, 0), 0)

\* ReferenceCandidate::new: Some(candidate), None, or the panic of
\* candidate_indices.
ReferenceCandidate_new(seed_hit, bin, read_len, edit_distance) ==
    LET r == candidate_indices(seed_hit, bin, read_len, edit_distance)
    IN [panic |-> r.kind = "Panic",
        cand |-> IF r.kind = "Some"
                 THEN ReferenceCandidate(r.start, r.end, bin, 1)
                 ELSE NoCandidate]

\* ReferenceCandidate::add_seed_hit: Ok(()) with the merged candidate, Err(())
\* with the candidate as it was, or the panic of candidate_indices.
add_seed_hit(self, seed_hit, bin, read_len, edit_distance) ==
    LET r == candidate_indices(seed_hit, bin, read_len, edit_distance)
    IN IF r.kind = "Panic" THEN [panic |-> TRUE, ok |-> FALSE, cand |-> self]
       ELSE IF r.kind = "None" THEN [panic |-> FALSE, ok |-> FALSE, cand |-> self]
       ELSE IF bin # self.bin THEN [panic |-> FALSE, ok |-> FALSE, cand |-> self]
       ELSE IF \/ (self.reference_start <= r.start /\ r.start < self.reference_end_excl)
               \/ (self.reference_start < r.end /\ r.end <= self.reference_end_excl)
       THEN [panic |-> FALSE, ok |-> TRUE,
             cand |-> [self EXCEPT !.reference_start = Min2(self.reference_start, r.start),
                                   !.reference_end_excl = Max2(self.reference_end_excl, r.end),
                                   !.num_seeds = self.num_seeds + 1]]
       ELSE [panic |-> FALSE, ok |-> FALSE, cand |-> self]

\* SeedHit's derived Ord: by reference_offset, then by query_offset.
SeedHitLessEq(a, b) ==
    \/ a.reference_offset < b.reference_offset
    \/ (a.reference_offset = b.reference_offset /\ a.query_offset <= b.query_offset)

\* seed_hits.sort()
RECURSIVE InsertSeedHit(_, _)
InsertSeedHit(sh, sorted) ==
    IF sorted = <<>> THEN <<sh>>
    ELSE IF SeedHitLessEq(sh, Head(sorted)) THEN <<sh>> \o sorted
    ELSE <<Head(sorted)>> \o InsertSeedHit(sh, Tail(sorted))

RECURSIVE SortSeedHits(_)
SortSeedHits(hits) ==
    IF hits = <<>> THEN <<>> ELSE InsertSeedHit(Head(hits), SortSeedHits(Tail(hits)))

\* while curr_bin.end <= sh.reference_offset { curr_bin = bin_iter.next().unwrap() }:
\* the position of the bin the cursor stops at, or Len(bins) + 1 when next()
\* returns None and unwrap panics.
RECURSIVE AdvanceBin(_, _, _)
AdvanceBin(bins, curr_bin, reference_offset) ==
    IF curr_bin > Len(bins) THEN curr_bin
    ELSE IF bins[curr_bin].end <= reference_offset
    THEN AdvanceBin(bins, curr_bin + 1, reference_offset)
    ELSE curr_bin

\* The state of coalesce_seed_sites before its loop: the cursor on the first
\* bin (unwrap panics when there is none), no open candidate.
CoalesceStart(bins) ==
    [curr_bin |-> 1, curr_cand |-> NoCandidate, candidates |-> <<>>,
     panic |-> bins = <<>>]

\* One iteration of `for &mut sh in seed_hits`.
CoalesceIter(bins, st, sh, min_seeds, read_len, edit_distance) ==
    LET curr_bin == AdvanceBin(bins, st.curr_bin, sh.reference_offset)
    IN IF st.panic THEN st
       ELSE IF curr_bin > Len(bins) THEN [st EXCEPT !.curr_bin = curr_bin, !.panic = TRUE]
       ELSE LET bin == bins[curr_bin]
                fresh == ReferenceCandidate_new(sh, bin, read_len, edit_distance)
                added == add_seed_hit(st.curr_cand, sh, bin, read_len, edit_distance)
            IN IF st.curr_cand # NoCandidate
               THEN IF added.panic THEN [st EXCEPT !.curr_bin = curr_bin, !.panic = TRUE]
                    ELSE IF added.ok
                    THEN [st EXCEPT !.curr_bin = curr_bin, !.curr_cand = added.cand]
                    ELSE [curr_bin |-> curr_bin,
                          curr_cand |-> fresh.cand,
                          candidates |-> IF st.curr_cand.num_seeds >= min_seeds
                                         THEN Append(st.candidates, st.curr_cand)
                                         ELSE st.candidates,
                          panic |-> fresh.panic]
               ELSE [st EXCEPT !.curr_bin = curr_bin, !.curr_cand = fresh.cand,
                               !.panic = fresh.panic]

\* After the loop: the open candidate is pushed if it has enough seeds.
CoalesceFinish(st, min_seeds) ==
    IF st.panic THEN st
    ELSE IF st.curr_cand # NoCandidate /\ st.curr_cand.num_seeds >= min_seeds
    THEN [st EXCEPT !.candidates = Append(st.candidates, st.curr_cand)]
    ELSE st

RECURSIVE CoalesceLoop(_, _, _, _, _, _)
CoalesceLoop(bins, st, seed_hits, min_seeds, read_len, edit_distance) ==
    IF seed_hits = <<>> THEN st
    ELSE CoalesceLoop(bins,
                      CoalesceIter(bins, st, Head(seed_hits), min_seeds, read_len,
                                   edit_distance),
                      Tail(seed_hits), min_seeds, read_len, edit_distance)

\* MGIndex::coalesce_seed_sites: [candidates, panic].
coalesce_seed_sites(bins, seed_hits, min_seeds, read_len, edit_distance) ==
    CoalesceFinish(CoalesceLoop(bins, CoalesceStart(bins), SortSeedHits(seed_hits),
                                min_seeds, read_len, edit_distance),
                   min_seeds)

-----------------------------------------------------------------------------
(* The query: index.rs MGIndex::matching_tax_ids. Fractions (edit_freq,     *)
(* min_seeds_percent) are held in hundredths.                              *)

\* (seq_len * edit_freq).ceil() as usize
EditDistanceOf(seq_len, edit_freq) == (seq_len * edit_freq + 99) \div 100

\* (n_seeds * min_seeds_percent).floor().max(1.0) as usize
MinSeedsOf(n_seeds, min_seeds_percent) == Max2((n_seeds * min_seeds_percent) \div 100, 1)

\* positions.occ(&suffix_array) of the suffix-array interval of a pattern: the
\* offsets at which the pattern occurs in the concatenated sequences.
Occurrences(text, seed) ==
    SelectSeq([i \in 1..Len(text) |-> i - 1],
              LAMBDA pos : /\ pos + Len(seed) <= Len(text)
                           /\ SubSeq(text, pos + 1, pos + Len(seed)) = seed)

\* The state of the seed loop before its first iteration. The range
\* 0..(len + 1 - seed_length) underflows when seed_length > len + 1: a build
\* with overflow checks panics there, the other one at the first slice.
SeedWalkStart(sequence, seed_length, seed_gap) ==
    [offset |-> 0, next_offset |-> 0, seed_interval |-> seed_gap, n_seeds |-> 0,
     bin_locations |-> <<>>, panic |-> seed_length > Len(sequence) + 1]

\* Is there another seed: offset is in 0..(len + 1 - seed_length).
SeedWalkMore(w, sequence, seed_length) ==
    ~w.panic /\ w.offset + seed_length < Len(sequence) + 1

\* BackwardSearchResult of fmindex.backward_search(seed): the pattern is matched
\* from its last byte backwards; Complete with the positions of the whole
\* pattern, Partial with those of the longest suffix that occurs, or Absent.
Complete(positions) == [kind |-> "Complete", positions |-> positions]
Partial(positions, l) == [kind |-> "Partial", positions |-> positions, len |-> l]
Absent == [kind |-> "Absent", positions |-> <<>>]

RECURSIVE MatchingSuffixLen(_, _, _)
MatchingSuffixLen(text, pattern, l) ==
    IF l < Len(pattern)
       /\ Occurrences(text, SubSeq(pattern, Len(pattern) - l, Len(pattern))) # <<>>
    THEN MatchingSuffixLen(text, pattern, l + 1)
    ELSE l

SearchResult(text, pattern, l) ==
    IF l = Len(pattern) THEN Complete(Occurrences(text, pattern))
    ELSE IF l = 0 THEN Absent
    ELSE Partial(Occurrences(text, SubSeq(pattern, Len(pattern) - l + 1, Len(pattern))), l)

backward_search(text, pattern) ==
    SearchResult(text, pattern, MatchingSuffixLen(text, pattern, 0))

\* interval_upper - interval_lower: both stay 0 unless the result is Complete.
IntervalSize(interval) ==
    IF interval.kind = "Complete" THEN Len(interval.positions) ELSE 0

\* The iteration once the seed is looked up: the skips, the doubling of the
\* interval, the seed hits.
SeedLookedUp(w, interval, seed_gap, max_hits, tune_max_hits) ==
    IF IntervalSize(interval) = 0 \/ IntervalSize(interval) > max_hits
    THEN [w EXCEPT !.offset = w.offset + seed_gap]
    ELSE [offset |-> w.offset + seed_gap,
          next_offset |-> IF IntervalSize(interval) > tune_max_hits
                          THEN w.offset + w.seed_interval * 2 ELSE w.next_offset,
          seed_interval |-> IF IntervalSize(interval) > tune_max_hits
                            THEN w.seed_interval * 2 ELSE w.seed_interval,
          n_seeds |-> w.n_seeds + 1,
          bin_locations |-> w.bin_locations \o
              [i \in 1..Len(interval.positions) |->
                  SeedHit(interval.positions[i], w.offset)],
          panic |-> FALSE]

\* The iteration without the test `offset < next_offset`.
SeedIterNoSkip(index, w, sequence, seed_length, seed_gap, max_hits, tune_max_hits) ==
    SeedLookedUp(w,
                 backward_search(index.sequences,
                                 SubSeq(sequence, w.offset + 1, w.offset + seed_length)),
                 seed_gap, max_hits, tune_max_hits)

\* One iteration of `for (offset, seed) in seeds`.
SeedIter(index, w, sequence, seed_length, seed_gap, max_hits, tune_max_hits) ==
    IF w.offset < w.next_offset THEN [w EXCEPT !.offset = w.offset + seed_gap]
    ELSE SeedLookedUp(w,
                      backward_search(index.sequences,
                                      SubSeq(sequence, w.offset + 1, w.offset + seed_length)),
                      seed_gap, max_hits, tune_max_hits)

RECURSIVE SeedWalkLoop(_, _, _, _, _, _, _)
SeedWalkLoop(index, w, sequence, seed_length, seed_gap, max_hits, tune_max_hits) ==
    IF SeedWalkMore(w, sequence, seed_length)
    THEN SeedWalkLoop(index,
                      SeedIter(index, w, sequence, seed_length, seed_gap, max_hits,
                               tune_max_hits),
                      sequence, seed_length, seed_gap, max_hits, tune_max_hits)
    ELSE w

\* refs.sort_by(|a, b| b.num_seeds.cmp(&a.num_seeds)): a stable sort.
RECURSIVE InsertByNumSeeds(_, _)
InsertByNumSeeds(c, sorted) ==
    IF sorted = <<>> THEN <<c>>
    ELSE IF Head(sorted).num_seeds < c.num_seeds THEN <<c>> \o sorted
    ELSE <<Head(sorted)>> \o InsertByNumSeeds(c, Tail(sorted))

RECURSIVE SortByNumSeeds(_, _)
SortByNumSeeds(refs, sorted) ==
    IF refs = <<>> THEN sorted
    ELSE SortByNumSeeds(Tail(refs), InsertByNumSeeds(Head(refs), sorted))

\* The score of one pair of bytes under IDENT_W_PENALTY_NO_N_MATCH.
ScoreOf(a, b) == IF a = b /\ a # "N" THEN 1 ELSE 0 - 1

Max3(a, b, c) == Max2(a, Max2(b, c))
Min3(a, b, c) == Min2(a, Min2(b, c))

\* One row of the Smith-Waterman matrix (gap open = gap extend = 1).
RECURSIVE SwRow(_, _, _, _)
SwRow(prev, a, y, row) ==
    LET j == Len(row)
    IN IF j > Len(y) THEN row
       ELSE SwRow(prev, a, y,
                  Append(row, Max2(0, Max3(prev[j] + ScoreOf(a, y[j]),
                                           prev[j + 1] - 1,
                                           row[j] - 1))))

RECURSIVE MaxOfSeq(_)
MaxOfSeq(row) == IF row = <<>> THEN 0 ELSE Max2(Head(row), MaxOfSeq(Tail(row)))

RECURSIVE SwRows(_, _, _, _)
SwRows(x, y, prev, best) ==
    IF x = <<>> THEN best
    ELSE LET row == SwRow(prev, Head(x), y, <<0>>)
         IN SwRows(Tail(x), y, row, Max2(best, MaxOfSeq(row)))

\* Profile::align_score(cand_seq, 1, 1): the best local alignment score.
align_score(x, y) == SwRows(x, y, [j \in 1..(Len(y) + 1) |-> 0], 0)

\* One row of the Levenshtein matrix.
RECURSIVE LevRow(_, _, _, _)
LevRow(prev, a, y, row) ==
    LET j == Len(row)
    IN IF j > Len(y) THEN row
       ELSE LevRow(prev, a, y,
                   Append(row, Min3(prev[j] + (IF a = y[j] THEN 0 ELSE 1),
                                    prev[j + 1] + 1,
                                    row[j] + 1)))

RECURSIVE LevRows(_, _, _)
LevRows(x, y, prev) ==
    IF x = <<>> THEN prev[Len(prev)]
    ELSE LevRows(Tail(x), y, LevRow(prev, Head(x), y, <<prev[1] + 1>>))

\* Aligner::min_edit_distance(x, y): the Levenshtein distance.
min_edit_distance(x, y) == LevRows(x, y, [j \in 1..(Len(y) + 1) |-> j - 1])

\* seq_no_n: N in the query is replaced by a byte that matches nothing.
SeqNoN(sequence) ==
    [i \in 1..Len(sequence) |-> IF sequence[i] = "N" THEN "." ELSE sequence[i]]

\* candidate.candidate_seq()
candidate_seq(index, candidate) ==
    SubSeq(index.sequences, candidate.reference_start + 1, candidate.reference_end_excl)

\* The state of the candidate loop before its first iteration.
AlignStart(refs) ==
    [refs |-> refs, matches |-> <<>>, hits |-> <<>>, panic |-> FALSE]

\* The iteration without the test `matches.contains(&candidate.bin.tax_id)`.
AlignIterNoSkip(index, a, sequence, edit_distance) ==
    LET candidate == Head(a.refs)
        rest == [a EXCEPT !.refs = Tail(a.refs)]
        threshold == usize_sub(Len(sequence), edit_distance * 2)
        edits == min_edit_distance(SeqNoN(sequence), candidate_seq(index, candidate))
    IN IF threshold = Overflow THEN [rest EXCEPT !.panic = TRUE]
       ELSE IF align_score(sequence, candidate_seq(index, candidate)) >= threshold
               /\ edits <= edit_distance
       THEN [rest EXCEPT
                !.matches = Append(a.matches, candidate.bin.tax_id),
                !.hits = Append(a.hits,
                                Hit(candidate.bin.tax_id, candidate.bin.gi,
                                    Max2(candidate.reference_start - candidate.bin.start, 0),
                                    edits))]
       ELSE rest

\* One iteration of `for candidate in reference_candidates`.
AlignIter(index, a, sequence, edit_distance) ==
    LET candidate == Head(a.refs)
        rest == [a EXCEPT !.refs = Tail(a.refs)]
        cand_seq == candidate_seq(index, candidate)
        score == align_score(sequence, cand_seq)
        threshold == usize_sub(Len(sequence), edit_distance * 2)
        edits == min_edit_distance(SeqNoN(sequence), cand_seq)
    IN IF \E i \in 1..Len(a.matches) : a.matches[i] = candidate.bin.tax_id THEN rest
       ELSE IF threshold = Overflow THEN [rest EXCEPT !.panic = TRUE]
       ELSE IF score >= threshold /\ edits <= edit_distance
       THEN [rest EXCEPT
                !.matches = Append(a.matches, candidate.bin.tax_id),
                !.hits = Append(a.hits,
                                Hit(candidate.bin.tax_id, candidate.bin.gi,
                                    Max2(candidate.reference_start - candidate.bin.start, 0),
                                    edits))]
       ELSE rest

RECURSIVE AlignLoop(_, _, _, _)
AlignLoop(index, a, sequence, edit_distance) ==
    IF a.panic \/ a.refs = <<>> THEN a
    ELSE AlignLoop(index, AlignIter(index, a, sequence, edit_distance), sequence,
                   edit_distance)

\* The arguments of matching_tax_ids after the index and the sequence.
QueryParams(edit_freq, seed_length, seed_gap, min_seeds_percent, max_hits, tune_max_hits) ==
    [edit_freq |-> edit_freq, seed_length |-> seed_length, seed_gap |-> seed_gap,
     min_seeds_percent |-> min_seeds_percent, max_hits |-> max_hits,
     tune_max_hits |-> tune_max_hits]

\* matching_tax_ids from the sorted candidates on: the candidate loop and the
\* hits it returns.
QueryAlign(index, sequence, edit_distance, c) ==
    IF c.panic THEN [hits |-> <<>>, panic |-> TRUE]
    ELSE AlignLoop(index, AlignStart(SortByNumSeeds(c.candidates, <<>>)), sequence,
                   edit_distance)

\* matching_tax_ids from the seed hits on: min_seeds, coalesce_seed_sites, the rest.
QueryCoalesce(index, sequence, p, edit_distance, w) ==
    IF w.panic THEN [hits |-> <<>>, panic |-> TRUE]
    ELSE QueryAlign(index, sequence, edit_distance,
                    coalesce_seed_sites(index.bins, w.bin_locations,
                                        MinSeedsOf(w.n_seeds, p.min_seeds_percent),
                                        Len(sequence), edit_distance))

\* The hits and the panic flag of the state the candidate loop ends in.
QueryHits(a) == [hits |-> a.hits, panic |-> a.panic]

\* MGIndex::matching_tax_ids: [hits, panic].
matching_tax_ids(index, sequence, p) ==
    QueryHits(QueryCoalesce(index, sequence, p,
                            EditDistanceOf(Len(sequence), p.edit_freq),
                            SeedWalkLoop(index,
                                         SeedWalkStart(sequence, p.seed_length, p.seed_gap),
                                         sequence, p.seed_length, p.seed_gap, p.max_hits,
                                         p.tune_max_hits)))

-----------------------------------------------------------------------------
(* Specification SpecSeed: candidate_indices over bounded bins, seed hits,  *)
(* read lengths and tolerances (test::seed_hits_success, seed_hits_fail).  *)

SeedInit ==
    /\ \E start \in 0..(MaxPos - 1) : \E end \in (start + 1)..MaxPos :
          s_bin = Bin(0, 1, start, end)
    /\ s_read_len \in 1..MaxReadLen
    /\ s_edit_distance \in 0..s_read_len
    /\ \E r \in 0..MaxPos, q \in 0..(s_read_len - 1) : s_seed_hit = SeedHit(r, q)
    /\ s_result = <<>>
    /\ overflow_checks \in BOOLEAN
    /\ CodecIdle /\ BinIdle /\ ColIdle /\ FsIdle /\ IdxIdle /\ QryIdle /\ WrkIdle

\* seed_hit.candidate_indices(&bin, read_len, edits)
CandidateIndices ==
    /\ s_result = <<>>
    /\ s_result' = candidate_indices(s_seed_hit, s_bin, s_read_len, s_edit_distance)
    /\ UNCHANGED <<s_bin, s_seed_hit, s_read_len, s_edit_distance, overflow_checks,
                   codecVars, binVars, colVars, fsVars, idxVars, qryVars, wrkVars>>

SeedNext == CandidateIndices

SpecSeed == SeedInit /\ [][SeedNext]_vars

-----------------------------------------------------------------------------
(* Specification SpecQuery: one call of matching_tax_ids, step by step,     *)
(* over bounded indexes, query sequences and parameters.                   *)

QueryBytes == {"A", "C"}

\* The bytes of all records of a database, one after the other.
RECURSIVE ReferencesLen(_)
ReferencesLen(recs) ==
    IF recs = <<>> THEN <<>> ELSE Head(recs).seq \o ReferencesLen(Tail(recs))

\* The databases: at most MaxRecs records, the first of tax_id 1.
QueryDbs ==
    {parse_fasta_db(recs, EmptyMap) :
        recs \in {rs \in SeqsOf({[gi |-> g, tax_id |-> t, seq |-> sq] :
                                    g \in {5}, t \in {1, 2},
                                    sq \in SeqsOf(QueryBytes, 0, MaxRefLen)},
                                0, MaxRecs) :
                    /\ rs # <<>> => rs[1].tax_id = 1
                    /\ Len(ReferencesLen(rs)) <= MaxCorpusLen}}

\* edit_freq, seed_length, seed_gap, min_seeds_percent, max_hits, tune_max_hits
QueryConfigs ==
    {QueryParams(0, 2, 1, 100, 3, 3),
     QueryParams(34, 1, 1, 50, 3, 1),
     QueryParams(34, 2, 1, 100, 2, 1),
     QueryParams(0, 1, 2, 50, 9, 9),
     QueryParams(100, 1, 1, 1, 3, 3),
     QueryParams(0, 1, 1, 100, 9, 9)}

QueryInit ==
    /\ \E db \in QueryDbs : q_index = MGIndex_new(db)
    /\ q_sequence \in SeqsOf(QueryBytes, 2, MaxReadLen)
    /\ q_params \in QueryConfigs
    /\ overflow_checks \in BOOLEAN
    /\ q_pc = "seeds"
    /\ q_walk = SeedWalkStart(q_sequence, q_params.seed_length, q_params.seed_gap)
    /\ q_seed_hits = <<>>
    /\ q_min_seeds = 0
    /\ q_coal = <<>>
    /\ q_align = <<>>
    /\ CodecIdle /\ BinIdle /\ ColIdle /\ FsIdle /\ IdxIdle /\ SeedIdle /\ WrkIdle

q_edit_distance == EditDistanceOf(Len(q_sequence), q_params.edit_freq)

\* One seed of the seed loop.
SeedStep ==
    /\ q_pc = "seeds"
    /\ SeedWalkMore(q_walk, q_sequence, q_params.seed_length)
    /\ q_walk' = SeedIter(q_index, q_walk, q_sequence, q_params.seed_length,
                          q_params.seed_gap, q_params.max_hits, q_params.tune_max_hits)
    /\ UNCHANGED <<q_index, q_sequence, q_params, q_pc, q_seed_hits, q_min_seeds, q_coal,
                   q_align, overflow_checks, codecVars, binVars, colVars, fsVars, idxVars,
                   seedVars, wrkVars>>

\* The seed loop is over: min_seeds is computed and coalesce_seed_sites sorts
\* the seed hits and takes the first bin.
CoalesceBegin ==
    /\ q_pc = "seeds"
    /\ ~SeedWalkMore(q_walk, q_sequence, q_params.seed_length)
    /\ IF q_walk.panic
       THEN /\ q_pc' = "panic"
            /\ UNCHANGED <<q_seed_hits, q_min_seeds, q_coal>>
       ELSE /\ q_min_seeds' = MinSeedsOf(q_walk.n_seeds, q_params.min_seeds_percent)
            /\ q_seed_hits' = SortSeedHits(q_walk.bin_locations)
            /\ q_coal' = CoalesceStart(q_index.bins)
            /\ q_pc' = IF q_index.bins = <<>> THEN "panic" ELSE "coalesce"
    /\ UNCHANGED <<q_index, q_sequence, q_params, q_walk, q_align, overflow_checks,
                   codecVars, binVars, colVars, fsVars, idxVars, seedVars, wrkVars>>

\* One seed hit of coalesce_seed_sites.
CoalesceStep ==
    /\ q_pc = "coalesce"
    /\ q_seed_hits # <<>>
    /\ q_coal' = CoalesceIter(q_index.bins, q_coal, Head(q_seed_hits), q_min_seeds,
                              Len(q_sequence), q_edit_distance)
    /\ q_seed_hits' = Tail(q_seed_hits)
    /\ q_pc' = IF q_coal'.panic THEN "panic" ELSE "coalesce"
    /\ UNCHANGED <<q_index, q_sequence, q_params, q_walk, q_min_seeds, q_align,
                   overflow_checks, codecVars, binVars, colVars, fsVars, idxVars, seedVars,
                   wrkVars>>

\* coalesce_seed_sites returns and the candidates are sorted by num_seeds.
RankCandidates ==
    /\ q_pc = "coalesce"
    /\ q_seed_hits = <<>>
    /\ q_coal' = CoalesceFinish(q_coal, q_min_seeds)
    /\ q_align' = AlignStart(SortByNumSeeds(q_coal'.candidates, <<>>))
    /\ q_pc' = "align"
    /\ UNCHANGED <<q_index, q_sequence, q_params, q_walk, q_seed_hits, q_min_seeds,
                   overflow_checks, codecVars, binVars, colVars, fsVars, idxVars, seedVars,
                   wrkVars>>

\* One candidate of the candidate loop.
AlignStep ==
    /\ q_pc = "align"
    /\ q_align.refs # <<>>
    /\ q_align' = AlignIter(q_index, q_align, q_sequence, q_edit_distance)
    /\ q_pc' = IF q_align'.panic THEN "panic" ELSE "align"
    /\ UNCHANGED <<q_index, q_sequence, q_params, q_walk, q_seed_hits, q_min_seeds,
                   q_coal, overflow_checks, codecVars, binVars, colVars, fsVars, idxVars,
                   seedVars, wrkVars>>

\* matching_tax_ids returns hits.
ReturnHits ==
    /\ q_pc = "align"
    /\ q_align.refs = <<>>
    /\ q_pc' = "done"
    /\ UNCHANGED <<q_index, q_sequence, q_params, q_walk, q_seed_hits, q_min_seeds,
                   q_coal, q_align, overflow_checks, codecVars, binVars, colVars, fsVars,
                   idxVars, seedVars, wrkVars>>

QueryNext ==
    \/ SeedStep
    \/ CoalesceBegin
    \/ CoalesceStep
    \/ RankCandidates
    \/ AlignStep
    \/ ReturnHits

SpecQuery == QueryInit /\ [][QueryNext]_vars

-----------------------------------------------------------------------------
(* Claims about reference candidates, checked under SpecQuery.             *)

\* The candidates of the current call: the open one, those coalesce_seed_sites
\* has closed, and those the candidate loop has still to examine.
OpenCandidates ==
    IF q_coal = <<>> THEN {}
    ELSE (IF q_coal.curr_cand # NoCandidate THEN {q_coal.curr_cand} ELSE {})
         \cup {q_coal.candidates[i] : i \in 1..Len(q_coal.candidates)}
         \cup (IF q_align = <<>> THEN {}
               ELSE {q_align.refs[i] : i \in 1..Len(q_align.refs)})

EmittedHits ==
    IF q_align = <<>> THEN {} ELSE {q_align.hits[i] : i \in 1..Len(q_align.hits)}

\* C16: every candidate, after creation and after any merges, lies inside its
\* own bin and is at least read_len - edit_distance long; every emitted hit has
\* a non-negative offset and its window lies inside one bin.
C16_Containment ==
    /\ \A c \in OpenCandidates :
          /\ \E i \in 1..Len(q_index.bins) : q_index.bins[i] = c.bin
          /\ c.bin.start <= c.reference_start
          /\ c.reference_start <= c.reference_end_excl
          /\ c.reference_end_excl <= c.bin.end
          /\ c.reference_end_excl - c.reference_start >= Len(q_sequence) - q_edit_distance
    /\ \A h \in EmittedHits :
          /\ h.offset >= 0
          /\ \E i \in 1..Len(q_index.bins) :
                LET bin == q_index.bins[i]
                IN /\ bin.tax_id = h.tax_id /\ bin.gi = h.gi
                   /\ bin.start + h.offset + (Len(q_sequence) - q_edit_distance) <= bin.end

\* A candidate merged from several seed hits, clipped by its bin, gave a hit.
C16_Witness ==
    /\ q_pc = "done"
    /\ q_align.hits # <<>>
    /\ \E c \in OpenCandidates :
          /\ c.num_seeds >= 2
          /\ c.reference_end_excl = c.bin.end
          /\ c.reference_start > c.bin.start

\* The window of a seed hit as the claim defines it, over the integers.
ClaimWindow(sh, bin, read_len, edit_distance) ==
    [start |-> Max2(bin.start, sh.reference_offset - sh.query_offset - edit_distance),
     end |-> Min2(bin.end,
                  sh.reference_offset + (read_len - sh.query_offset) + edit_distance)]

\* C20: add_seed_hit merges the hit iff its bin is the candidate's bin and its
\* window [s, e) overlaps the candidate's [S, E); a merge gives
\* [min(S, s), max(E, e)) and one more seed; a refusal leaves the candidate
\* as it was.
C20_AddSeedHit ==
    (/\ q_pc = "coalesce"
     /\ q_seed_hits # <<>>
     /\ q_coal.curr_cand # NoCandidate
     /\ AdvanceBin(q_index.bins, q_coal.curr_bin, Head(q_seed_hits).reference_offset)
            <= Len(q_index.bins))
    => LET sh == Head(q_seed_hits)
           bin == q_index.bins[AdvanceBin(q_index.bins, q_coal.curr_bin,
                                          sh.reference_offset)]
           cand == q_coal.curr_cand
           L == Len(q_sequence)
           w == ClaimWindow(sh, bin, L, q_edit_distance)
           valid == w.end - w.start >= L - q_edit_distance
           overlap == w.start < cand.reference_end_excl /\ cand.reference_start < w.end
           r == add_seed_hit(cand, sh, bin, L, q_edit_distance)
       IN /\ r.ok <=> (bin = cand.bin /\ valid /\ overlap)
          /\ r.ok => r.cand = ReferenceCandidate(Min2(cand.reference_start, w.start),
                                                 Max2(cand.reference_end_excl, w.end),
                                                 cand.bin, cand.num_seeds + 1)
          /\ ~r.ok => r.cand = cand

-----------------------------------------------------------------------------
(* Claims about candidate_indices, checked under SpecSeed.                 *)

\* The window of the claim, over the integers.
WindowStart == Max2(s_bin.start,
                    s_seed_hit.reference_offset - s_seed_hit.query_offset - s_edit_distance)
WindowEnd == Min2(s_bin.end,
                  s_seed_hit.reference_offset + (s_read_len - s_seed_hit.query_offset)
                      + s_edit_distance)

\* C18: candidate_indices returns (max(bs, r - q - e), min(be, r + (L - q) + e))
\* exactly when that window is at least L - e long, and no candidate otherwise;
\* no underflow occurs when q + e > r; an unclipped window is L + 2e long.
C18_CandidateIndices ==
    s_result # <<>> =>
        /\ s_result.kind # "Panic"
        /\ IF WindowEnd - WindowStart >= s_read_len - s_edit_distance
           THEN s_result = SomeIndices(WindowStart, WindowEnd)
           ELSE s_result = NoIndices
        /\ (/\ s_result.kind = "Some"
            /\ s_result.start > s_bin.start
            /\ s_result.end < s_bin.end)
              => s_result.end - s_result.start = s_read_len + 2 * s_edit_distance

\* C19: a seed hit whose reference_offset is outside [bin.start, bin.end)
\* yields no candidate.
C19_SeedOutsideBin ==
    (/\ s_result # <<>>
     /\ ~(s_bin.start <= s_seed_hit.reference_offset
          /\ s_seed_hit.reference_offset < s_bin.end))
        => s_result.kind # "Some"

-----------------------------------------------------------------------------
(* The worker closure of get_fastx_and_write_matching_bin_ids and the       *)
(* writer closure, over one record.                                        *)

\* Option<usize>
NoLimit == [some |-> FALSE, value |-> 0]
SomeLimit(k) == [some |-> TRUE, value |-> k]

\* `let seq_all_caps = record.seq().iter().map(..)`: anything else becomes N.
seq_all_caps(seq) ==
    [i \in 1..Len(seq) |->
        CASE seq[i] \in {"A", "a"} -> "A"
          [] seq[i] \in {"C", "c"} -> "C"
          [] seq[i] \in {"G", "g"} -> "G"
          [] seq[i] \in {"T", "t"} -> "T"
          [] OTHER -> "N"]

\* bio::alphabets::dna::complement: a byte outside the table is left as it is.
complement(b) ==
    CASE b = "A" -> "T" [] b = "T" -> "A" [] b = "C" -> "G" [] b = "G" -> "C"
      [] b = "a" -> "t" [] b = "t" -> "a" [] b = "c" -> "g" [] b = "g" -> "c"
      [] OTHER -> b

\* bio::alphabets::dna::revcomp
revcomp(text) == [i \in 1..Len(text) |-> complement(text[Len(text) + 1 - i])]

\* `hits.into_iter().chain(rev_hits.into_iter()).collect()`; a panic of either
\* query is a panic of the worker.
ChainHits(hits, rev_hits) ==
    [edit_distances |-> hits.hits \o rev_hits.hits, panic |-> hits.panic \/ rev_hits.panic]

\* The closure with the query of the reverse complement left out.
worker_forward_only(index, seq, p, limits) ==
    ChainHits(matching_tax_ids(index, seq_all_caps(seq), p), [hits |-> <<>>, panic |-> FALSE])

\* The worker closure on an Ok record: the limits are handed over at the two
\* call sites, and MGIndex::matching_tax_ids has no parameter that takes them.
worker(index, seq, p, limits) ==
    ChainHits(matching_tax_ids(index, seq_all_caps(seq), p),
              matching_tax_ids(index, revcomp(seq_all_caps(seq)), p))

\* The writer closure: a panic of the worker writes nothing.
WriteResult(res) ==
    [edit_distances |-> res.edit_distances, panic |-> res.panic,
     line |-> IF res.panic THEN <<>>
              ELSE write_assignments(<<"r">>, res.edit_distances, FALSE)]

\* The worker and then the writer closure.
ProcessRecord(index, seq, p, limits) == WriteResult(worker(index, seq, p, limits))

-----------------------------------------------------------------------------
(* Specification SpecWorker: a record and its reverse complement through    *)
(* the worker and the writer, short output format.                         *)

CorpusBytes == {"A", "T"}
ReadBytes == {"A", "t", "X"}

WorkerDbs ==
    {parse_fasta_db(recs, EmptyMap) :
        recs \in {rs \in SeqsOf({[gi |-> g, tax_id |-> t, seq |-> sq] :
                                    g \in {5}, t \in {1, 2},
                                    sq \in SeqsOf(CorpusBytes, 1, MaxSeqLen)},
                                1, MaxRecs) :
                    /\ rs[1].tax_id = 1
                    /\ Len(ReferencesLen(rs)) <= MaxCorpusLen}}

WorkerConfigs == {QueryParams(0, 2, 1, 100, 3, 3), QueryParams(34, 1, 1, 50, 3, 1)}

WorkerLimits ==
    {[max_assignments |-> NoLimit, max_candidates_checked |-> NoLimit],
     [max_assignments |-> SomeLimit(MaxAssign), max_candidates_checked |-> NoLimit],
     [max_assignments |-> NoLimit, max_candidates_checked |-> SomeLimit(MaxAssign)]}

WorkerInit ==
    /\ \E db \in WorkerDbs : w_index = MGIndex_new(db)
    /\ w_seq \in SeqsOf(ReadBytes, 2, MaxReadLen)
    /\ w_params \in WorkerConfigs
    /\ w_limits \in WorkerLimits
    /\ overflow_checks \in BOOLEAN
    /\ w_out = <<>>
    /\ w_rc_out = <<>>
    /\ CodecIdle /\ BinIdle /\ ColIdle /\ FsIdle /\ IdxIdle /\ SeedIdle /\ QryIdle

\* The record itself goes through the pipeline.
WorkRecord ==
    /\ w_out = <<>>
    /\ w_out' = ProcessRecord(w_index, w_seq, w_params, w_limits)
    /\ UNCHANGED <<w_index, w_seq, w_params, w_limits, w_rc_out, overflow_checks,
                   codecVars, binVars, colVars, fsVars, idxVars, seedVars, qryVars>>

\* A record whose sequence is the reverse complement goes through the pipeline.
WorkRevcomp ==
    /\ w_rc_out = <<>>
    /\ w_rc_out' = ProcessRecord(w_index, revcomp(w_seq), w_params, w_limits)
    /\ UNCHANGED <<w_index, w_seq, w_params, w_limits, w_out, overflow_checks,
                   codecVars, binVars, colVars, fsVars, idxVars, seedVars, qryVars>>

WorkerNext == WorkRecord \/ WorkRevcomp

SpecWorker == WorkerInit /\ [][WorkerNext]_vars

\* The taxids of the items of a written line.
LineTaxIds(line) ==
    LET items == parse_edit_distance_findings(line)
    IN  IF items = <<>> THEN {}
        ELSE {items[1].hits[i].tax_id : i \in 1..Len(items[1].hits)}

\* C13: once the record and its reverse complement are both through, the
\* lines written for them name the same set of taxids.
C13_StrandSymmetry ==
    (w_out # <<>> /\ w_rc_out # <<>>) => LineTaxIds(w_out.line) = LineTaxIds(w_rc_out.line)

\* A record whose line has a taxid only by the query of the reverse complement,
\* while the query of the folded read of its reverse complement finds it.
C13_Witness ==
    /\ w_out # <<>> /\ w_rc_out # <<>>
    /\ LineTaxIds(w_out.line) # {}
    /\ matching_tax_ids(w_index, seq_all_caps(w_seq), w_params).hits = <<>>
    /\ seq_all_caps(w_seq) # w_seq

\* C15: with max_assignments = K no record has more than K accepted hits.
C15_EarlyTermination ==
    (w_out # <<>> /\ w_limits.max_assignments.some)
        => Len(w_out.edit_distances) <= w_limits.max_assignments.value

-----------------------------------------------------------------------------
(* Claims about coalesce_seed_sites and the ranking, checked under         *)
(* SpecQuery.                                                              *)

\* Closing a candidate: it is pushed if it has num_seeds >= min_seeds.
ClosedWith(candidates, cand) ==
    IF cand # NoCandidate /\ cand.num_seeds >= q_min_seeds
    THEN Append(candidates, cand) ELSE candidates

\* C21: each seed hit with a valid window is counted in exactly one candidate
\* (the open one grows by one seed, or it is closed and a candidate of one seed
\* is opened); a closed candidate is returned exactly when it has num_seeds >=
\* min_seeds, the one open after the last hit included; no returned candidate
\* has fewer than min_seeds seeds.
C21_Coalesce ==
    /\ [][(q_pc = "coalesce" /\ q_seed_hits # <<>>) =>
            LET sh == Head(q_seed_hits)
                at == AdvanceBin(q_index.bins, q_coal.curr_bin, sh.reference_offset)
                cand == q_coal.curr_cand
            IN /\ at <= Len(q_index.bins)
               /\ LET w == ClaimWindow(sh, q_index.bins[at], Len(q_sequence),
                                       q_edit_distance)
                      valid == w.end - w.start >= Len(q_sequence) - q_edit_distance
                  IN /\ ~q_coal'.panic
                     /\ IF valid
                        THEN \/ /\ cand # NoCandidate
                                /\ q_coal'.curr_cand.num_seeds = cand.num_seeds + 1
                                /\ q_coal'.candidates = q_coal.candidates
                             \/ /\ q_coal'.curr_cand.num_seeds = 1
                                /\ q_coal'.candidates = ClosedWith(q_coal.candidates, cand)
                        ELSE /\ q_coal'.curr_cand = NoCandidate
                             /\ q_coal'.candidates = ClosedWith(q_coal.candidates, cand)]_vars
    /\ [][(q_pc = "coalesce" /\ q_seed_hits = <<>>) =>
            q_coal'.candidates = ClosedWith(q_coal.candidates, q_coal.curr_cand)]_vars
    /\ [](q_coal # <<>> =>
            \A i \in 1..Len(q_coal.candidates) : q_coal.candidates[i].num_seeds >= q_min_seeds)

\* The order the claim gives to two candidates: a is examined no later than b.
RankedBefore(a, b) ==
    \/ a.num_seeds > b.num_seeds
    \/ /\ a.num_seeds = b.num_seeds
       /\ \/ a.bin.tax_id < b.bin.tax_id
          \/ (a.bin.tax_id = b.bin.tax_id /\ a.reference_start <= b.reference_start)

\* C22: the candidates are examined by num_seeds descending, ties by the bin's
\* tax_id ascending and then by reference_start ascending.
C22_RankOrder ==
    (q_pc = "align") =>
        \A i, j \in 1..Len(q_align.refs) : i < j => RankedBefore(q_align.refs[i], q_align.refs[j])


(* Claims about the seed walk, checked under SpecQuery. *)

\* The seed of the iteration at hand and the number of places where it occurs.
CurrentSeed ==
    SubSeq(q_sequence, q_walk.offset + 1, q_walk.offset + q_params.seed_length)

CurrentHits == Len(Occurrences(q_index.sequences, CurrentSeed))

WalkKept(w1, w2) ==
    /\ w2.seed_interval = w1.seed_interval
    /\ w2.next_offset = w1.next_offset
    /\ w2.n_seeds = w1.n_seeds
    /\ w2.bin_locations = w1.bin_locations

\* C23: in the seed walk the interval never decreases; a used seed at offset i
\* with tune_max_hits < n_hits <= max_hits doubles it and sets next_offset to
\* i + the doubled interval, and the interval changes in no other way; a seed
\* below next_offset and a seed with n_hits > max_hits add no seed hit, are not
\* counted and leave the interval alone.
C23_SeedInterval ==
    [][(/\ q_pc = "seeds"
        /\ q_pc' = "seeds"
        /\ SeedWalkMore(q_walk, q_sequence, q_params.seed_length)) =>
        /\ q_walk'.seed_interval >= q_walk.seed_interval
        /\ q_walk.offset < q_walk.next_offset => WalkKept(q_walk, q_walk')
        /\ (q_walk.offset >= q_walk.next_offset /\ CurrentHits > q_params.max_hits)
               => WalkKept(q_walk, q_walk')
        /\ (/\ q_walk.offset >= q_walk.next_offset
            /\ CurrentHits > q_params.tune_max_hits
            /\ CurrentHits <= q_params.max_hits)
               => /\ q_walk'.seed_interval = 2 * q_walk.seed_interval
                  /\ q_walk'.next_offset = q_walk.offset + q_walk'.seed_interval
                  /\ q_walk'.n_seeds = q_walk.n_seeds + 1
        /\ q_walk'.seed_interval # q_walk.seed_interval
               => /\ q_walk.offset >= q_walk.next_offset
                  /\ CurrentHits > q_params.tune_max_hits
                  /\ CurrentHits <= q_params.max_hits
    ]_vars

\* The interval was doubled, the seeds below next_offset were passed over and
\* the walk is at a seed beyond them.
C23_Witness ==
    /\ q_pc = "seeds"
    /\ q_walk.seed_interval > q_params.seed_gap
    /\ q_walk.n_seeds >= 1
    /\ q_walk.offset >= q_walk.next_offset
    /\ SeedWalkMore(q_walk, q_sequence, q_params.seed_length)


\* C24: a seed that is looked up and whose backward search is Complete or
\* Partial with an interval of 1..max_hits positions is used: its positions are
\* appended as seed hits and it is counted; only an Absent result or an interval
\* of size 0 passes the seed over.
C24_PartialUsed ==
    [][(/\ q_pc = "seeds"
        /\ q_pc' = "seeds"
        /\ SeedWalkMore(q_walk, q_sequence, q_params.seed_length)
        /\ q_walk.offset >= q_walk.next_offset
        /\ backward_search(q_index.sequences, CurrentSeed).kind # "Absent"
        /\ Len(backward_search(q_index.sequences, CurrentSeed).positions)
               \in 1..q_params.max_hits) =>
        /\ q_walk'.n_seeds = q_walk.n_seeds + 1
        /\ q_walk'.bin_locations = q_walk.bin_locations \o
               [i \in 1..Len(backward_search(q_index.sequences, CurrentSeed).positions) |->
                   SeedHit(backward_search(q_index.sequences, CurrentSeed).positions[i],
                           q_walk.offset)]
    ]_vars


(* Claims about the candidate loop, checked under SpecQuery. *)

\* Would the candidate pass both filters of the loop: score >= L - 2e and
\* edits <= e.
Passes(cand) ==
    /\ align_score(q_sequence, candidate_seq(q_index, cand))
           >= Len(q_sequence) - 2 * q_edit_distance
    /\ min_edit_distance(SeqNoN(q_sequence), candidate_seq(q_index, cand))
           <= q_edit_distance

Accepted(tax_id) == \E i \in 1..Len(q_align.hits) : q_align.hits[i].tax_id = tax_id

\* C25: the hits of one call have pairwise distinct tax_ids and edit <= e; a
\* hit is only ever added for a candidate that passes score >= L - 2e and
\* edits <= e; a candidate whose tax_id is already accepted changes nothing.
C25_HitVector ==
    /\ [](q_align # <<>> =>
            /\ \A i, j \in 1..Len(q_align.hits) :
                   q_align.hits[i].tax_id = q_align.hits[j].tax_id => i = j
            /\ \A i \in 1..Len(q_align.hits) : q_align.hits[i].edit <= q_edit_distance)
    /\ [][(q_pc = "align" /\ q_align.refs # <<>>) =>
            /\ Accepted(Head(q_align.refs).bin.tax_id) =>
                   /\ q_align'.hits = q_align.hits
                   /\ q_align'.matches = q_align.matches
                   /\ ~q_align'.panic
            /\ q_align'.hits # q_align.hits =>
                   /\ Passes(Head(q_align.refs))
                   /\ Len(q_align'.hits) = Len(q_align.hits) + 1
                   /\ SubSeq(q_align'.hits, 1, Len(q_align.hits)) = q_align.hits
                   /\ q_align'.hits[Len(q_align'.hits)].tax_id = Head(q_align.refs).bin.tax_id
      ]_vars

\* The call returned a hit for a tax_id of which two candidates pass the
\* filters: the later of the two was skipped.
C25_Witness ==
    /\ q_pc = "done"
    /\ \E i, j \in 1..Len(q_coal.candidates) :
          /\ i < j
          /\ q_coal.candidates[i].bin.tax_id = q_coal.candidates[j].bin.tax_id
          /\ Accepted(q_coal.candidates[i].bin.tax_id)
          /\ Passes(q_coal.candidates[i])
          /\ Passes(q_coal.candidates[j])


\* C27: coalesce_seed_sites always has a current bin (the cursor is never past
\* the last bin, for the empty index too), and after the cursor advance the
\* current bin holds the seed hit at hand: start <= reference_offset < end.
C27_BinCursor ==
    /\ [](q_coal # <<>> => q_coal.curr_bin <= Len(q_index.bins))
    /\ [][(q_pc = "coalesce" /\ q_seed_hits # <<>>) =>
            /\ AdvanceBin(q_index.bins, q_coal.curr_bin,
                          Head(q_seed_hits).reference_offset) <= Len(q_index.bins)
            /\ q_index.bins[AdvanceBin(q_index.bins, q_coal.curr_bin,
                                       Head(q_seed_hits).reference_offset)].start
                   <= Head(q_seed_hits).reference_offset
            /\ Head(q_seed_hits).reference_offset
                   < q_index.bins[AdvanceBin(q_index.bins, q_coal.curr_bin,
                                             Head(q_seed_hits).reference_offset)].end
      ]_vars


\* C28: the threshold L - 2e is computed without underflow: a candidate of a
\* tax_id not yet accepted whose window is within e edits of the read, and
\* whose score is at least L - 2e, is accepted and the call does not abort.
C28_Threshold ==
    [][(/\ q_pc = "align"
        /\ q_align.refs # <<>>
        /\ ~Accepted(Head(q_align.refs).bin.tax_id)
        /\ Passes(Head(q_align.refs))) =>
        /\ ~q_align'.panic
        /\ Len(q_align'.hits) = Len(q_align.hits) + 1
    ]_vars

-----------------------------------------------------------------------------
(* external_sort_file on its own: a file of a few lines and a chunk limit. *)

MaxSortLines == 4   \* lines of the file that is sorted

\* Lines of a result file: three read ids, both line ends, blank lines, and a
\* line without separator.
SortLinePool ==
    {<<"b", ":", "1", "=", "0", "\n">>,
     <<"a", ":", "2", "=", "1", "\n">>,
     <<"a", ":", "1", "=", "0", "\r", "\n">>,
     <<"r", ":", "1", "=", "0", "\n">>,
     <<"\n">>,
     <<" ", "\r", "\n">>,
     <<"b", "\n">>}

\* Limits below one line, of one line, of two lines, and above the whole file.
ChunkLimits == {1, 6, 12, 30}

RECURSIVE ConcatLines(_)
ConcatLines(ls) == IF ls = <<>> THEN <<>> ELSE Head(ls) \o ConcatLines(Tail(ls))

\* The last line of a file may lack its newline.
SortFiles ==
    {ConcatLines(ls) : ls \in SeqsOf(SortLinePool, 0, MaxSortLines)}
        \cup {TrimLineEnd(ConcatLines(ls)) : ls \in SeqsOf(SortLinePool, 1, MaxSortLines)}

SortInit ==
    /\ e_file \in SortFiles
    /\ e_chunk_bytes \in ChunkLimits
    /\ e_result = <<>>
    /\ e_stage = "input"
    /\ t_now = 0 /\ t_dirs = {} /\ t_pc = <<>> /\ t_dir = <<>>
    /\ CodecIdle /\ BinIdle /\ ColIdle
    /\ IdxIdle /\ SeedIdle /\ QryIdle /\ WrkIdle /\ overflow_checks = FALSE

ExternalSort ==
    /\ e_stage = "input"
    /\ e_result' = external_sort_file(e_file, e_chunk_bytes)
    /\ e_stage' = "sorted"
    /\ UNCHANGED <<e_file, e_chunk_bytes, t_now, t_dirs, t_pc, t_dir, codecVars, binVars,
                   colVars, idxVars, seedVars, overflow_checks, qryVars, wrkVars>>

SortNext == ExternalSort

SpecSort == SortInit /\ [][SortNext]_vars

\* The lines of the input that are not blank, each made to end in one "\n".
RECURSIVE SelectNonBlank(_)
SelectNonBlank(lines) ==
    IF lines = <<>> THEN <<>>
    ELSE IF Trim(Head(lines)) = <<>> THEN SelectNonBlank(Tail(lines))
    ELSE <<normalize_line(Head(lines))>> \o SelectNonBlank(Tail(lines))

CountIn(seq, x) == Cardinality({i \in 1..Len(seq) : seq[i] = x})

SameMultiset(a, b) ==
    /\ Len(a) = Len(b)
    /\ \A i \in 1..Len(a) : CountIn(a, a[i]) = CountIn(b, a[i])

AscendingReadIds(lines) ==
    \A i, j \in 1..Len(lines) :
        i < j => ~StrLess(read_id_from_line(lines[j]).read_id,
                          read_id_from_line(lines[i]).read_id)

AllHaveReadId(lines) ==
    \A i \in 1..Len(lines) : read_id_from_line(lines[i]).status = "Ok"

-----------------------------------------------------------------------------
(* create_temp_dir and the collapse_edit_files calls of one process.       *)

MaxCollapses == 2   \* collapse_edit_files calls that run at the same time
MaxClock == 2       \* milliseconds that pass while they run

NoDir == [pid |-> 0, ts |-> 0 - 1]

\* std::process::id() of the one process.
ProcessId == 1

\* format!("mtsv-collapse-{}-{}", std::process::id(), ts)
TempName(ts) == [pid |-> ProcessId, ts |-> ts]

\* create_temp_dir: fs::create_dir fails if the directory exists.
create_temp_dir(dirs, now) ==
    IF TempName(now) \in dirs
    THEN [status |-> "AlreadyExists", dir |-> NoDir, dirs |-> dirs]
    ELSE [status |-> "Ok", dir |-> TempName(now), dirs |-> dirs \cup {TempName(now)}]

TempInit ==
    /\ t_now = 0
    /\ t_dirs = {}
    /\ t_pc = [c \in 1..MaxCollapses |-> "start"]
    /\ t_dir = [c \in 1..MaxCollapses |-> [files |-> NoDir, paths |-> NoDir]]
    /\ e_file = <<>> /\ e_chunk_bytes = 0 /\ e_result = <<>> /\ e_stage = "idle"
    /\ CodecIdle /\ BinIdle /\ ColIdle
    /\ IdxIdle /\ SeedIdle /\ QryIdle /\ WrkIdle /\ overflow_checks = FALSE

\* A millisecond passes.
Tick ==
    /\ t_now < MaxClock
    /\ t_now' = t_now + 1
    /\ UNCHANGED <<t_dirs, t_pc, t_dir, e_file, e_chunk_bytes, e_result, e_stage, codecVars,
                   binVars, colVars, idxVars, seedVars, overflow_checks, qryVars, wrkVars>>

\* The step of collapse c that takes it to `to`, with the directories and its
\* own two directories as given.
TempStep(c, to, dirs, own) ==
    /\ t_pc' = [t_pc EXCEPT ![c] = to]
    /\ t_dirs' = dirs
    /\ t_dir' = [t_dir EXCEPT ![c] = own]
    /\ UNCHANGED <<t_now, e_file, e_chunk_bytes, e_result, e_stage, codecVars, binVars,
                   colVars, idxVars, seedVars, overflow_checks, qryVars, wrkVars>>

\* collapse_edit_files: `let temp_dir = create_temp_dir()?;`, then the inputs
\* are copied into it.
CreateForFiles(c) ==
    /\ t_pc[c] = "start"
    /\ LET r == create_temp_dir(t_dirs, t_now)
       IN  TempStep(c, IF r.status = "Ok" THEN "copied" ELSE "failed", r.dirs,
                    [t_dir[c] EXCEPT !.files = r.dir])

\* collapse_edit_paths: `let temp_dir = create_temp_dir()?;`. On an error
\* collapse_edit_files goes on to remove its own directory.
CreateForPaths(c) ==
    /\ t_pc[c] = "copied"
    /\ LET r == create_temp_dir(t_dirs, t_now)
       IN  TempStep(c, IF r.status = "Ok" THEN "sorting" ELSE "cleanup_err", r.dirs,
                    [t_dir[c] EXCEPT !.paths = r.dir])

\* collapse_edit_paths: the files are sorted and collapsed, then
\* fs::remove_dir_all(&temp_dir).
RemoveForPaths(c) ==
    /\ t_pc[c] = "sorting"
    /\ TempStep(c, "cleanup_ok", t_dirs \ {t_dir[c].paths}, [t_dir[c] EXCEPT !.paths = NoDir])

\* collapse_edit_files: fs::remove_dir_all(&temp_dir) and `result` is returned.
RemoveForFiles(c) ==
    /\ t_pc[c] \in {"cleanup_ok", "cleanup_err"}
    /\ TempStep(c, IF t_pc[c] = "cleanup_ok" THEN "done" ELSE "failed",
                t_dirs \ {t_dir[c].files}, [t_dir[c] EXCEPT !.files = NoDir])

TempNext ==
    \/ Tick
    \/ \E c \in 1..MaxCollapses :
          \/ CreateForFiles(c)
          \/ CreateForPaths(c)
          \/ RemoveForPaths(c)
          \/ RemoveForFiles(c)

SpecTemp == TempInit /\ [][TempNext]_vars

\* C29: every create_temp_dir call of a collapse gets a fresh directory: no call
\* fails because the directory exists, and the directories held by the
\* collapses at any one time are pairwise distinct.
C29_FreshTempDir ==
    t_pc # <<>> =>
        /\ \A c \in 1..MaxCollapses : t_pc[c] \notin {"failed", "cleanup_err"}
        /\ \A c \in 1..MaxCollapses :
              t_dir[c].files # NoDir => t_dir[c].files # t_dir[c].paths
        /\ \A c, d \in 1..MaxCollapses :
              (c # d /\ t_dir[c].files # NoDir) =>
                  t_dir[c].files \notin {t_dir[d].files, t_dir[d].paths}

-----------------------------------------------------------------------------
(* The binner without I/O errors: every record decodes, every write succeeds. *)

BinLiveInit ==
    /\ BinInit
    /\ input # <<>>
    /\ \A i \in 1..Len(input) : input[i].ok

BinLiveNext ==
    \/ ResumeOffset
    \/ OpenOutput
    \/ \E w \in 1..num_threads : WorkerTake(w)
    \/ \E w \in 1..num_threads : WorkerFinish(w)
    \/ Writer
    \/ Finish

\* The main thread, the worker threads and the writer thread are operating
\* system threads: one that can take a step is not held back for ever.
SpecBinLive == BinLiveInit /\ [][BinLiveNext]_vars /\ WF_vars(BinLiveNext)

====
